---- MODULE Spec2Model ----
(***************************************************************************)
(* A model of oidc-exchange: the claim matcher (providers/github.rs), the  *)
(* OIDC verifier (oidc.rs), the policy engine front end and its            *)
(* repository-visibility cache (policy.rs), the GitHub and Oxide minters   *)
(* (token/github.rs, token/oxide.rs) and the exchange handler              *)
(* (endpoints.rs).                                                         *)
(*                                                                         *)
(* Each component has its own specification (SpecMatcher, SpecVerify, ...) *)
(* over the shared variables; a specification leaves the variables of the  *)
(* other components at their initial value.                                *)
(***************************************************************************)
EXTENDS Integers, Sequences, FiniteSets, TLC

VARIABLES
    \* claim matcher: GithubOidcClaims::validate(self = constraint, claims = presented)
    constraint, presented, matched,
    \* verifier: the presented JWT, the issuer record validate ran on (vprov), the
    \* claim constraint it was given (vclaims) and what it returned (vres)
    jwt, vprov, vclaims, vres,
    \* Policy: the visibility cache and its mutex (0 when free, else the task
    \* holding it), the decisions of the rule file for the facts evaluated so far
    cache, lock, decided,
    \* the environment: the clock (Utc::now)
    clock,
    \* the request tasks: where each is (pc), its token request (req), its place
    \* in the repository and permission loops (ri, pi), the visibility it is
    \* working with (vis) and what the operation returned (result)
    pc, req, ri, pi, vis, result,
    \* the GitHub minter: whether GitHubTokens holds credentials (ghcfg), the
    \* locals of each task's get (mint) and what get returned (mres); and the
    \* HTTP response of each task's exchange (resp)
    ghcfg, mint, mres, resp,
    \* the Oxide minter: the state of OxideTokens, None when settings.oxide is absent
    oxstate,
    \* the Context under construction at startup: how far Context::new is and the
    \* issuer-record map it has built
    ctx,
    \* the history: calls, returns, policy evaluations and upstream HTTP calls, in order
    hist

matcherVars == <<constraint, presented, matched>>

verifyVars == <<jwt, vprov, vclaims, vres>>

policyVars == <<cache, lock, decided>>

envVars == <<clock>>

taskVars == <<pc, req, ri, pi, vis, result>>

minterVars == <<ghcfg, oxstate, mint, mres, resp>>

ctxVars == <<ctx>>

vars == <<matcherVars, verifyVars, policyVars, envVars, taskVars, minterVars, ctxVars, hist>>

(***************************************************************************)
(* Option<String>: None is the empty sequence, Some(x) the sequence <<x>>, *)
(* so that None differs from Some("").                                     *)
(***************************************************************************)
None == <<>>

Some(x) == <<x>>

\* a result variable holds None before the operation has run and Some(r) after
Ran(r) == r # None

\* no Context is being constructed
NoContext == [state |-> "none"]

\* the variables of the request tasks, the policy and the environment at rest
IdleFlow ==
    /\ cache = <<>>
    /\ lock = 0
    /\ decided = {}
    /\ clock = 0
    /\ pc = <<>>
    /\ req = <<>>
    /\ ri = <<>>
    /\ pi = <<>>
    /\ vis = <<>>
    /\ result = <<>>
    /\ ghcfg = ""
    /\ oxstate = <<>>
    /\ ctx = NoContext
    /\ mint = <<>>
    /\ mres = <<>>
    /\ resp = <<>>
    /\ hist = <<>>

(***************************************************************************)
(* providers/github.rs                                                     *)
(***************************************************************************)

\* the 17 fields of GithubOidcClaims, in declaration order
FieldSeq ==
    << "jti", "sub", "aud", "ref_", "repository", "repository_owner", "actor_id",
       "repository_id", "repository_owner_id", "actor", "workflow", "head_ref",
       "base_ref", "event_name", "ref_type", "job_workflow_ref", "iss" >>

FieldSet == {FieldSeq[i] : i \in 1..Len(FieldSeq)}

\* a mutant of check_claim: a required value against an absent one passes
check_claim_absent_passes(a, b) ==
    IF a = None THEN TRUE
    ELSE IF b = None THEN TRUE
    ELSE a[1] = b[1]

\* fn check_claim(a: Option<&str>, b: Option<&str>) -> bool
\*   a.and_then(|required| b.map(|supplied| required == supplied).or(Some(false)))
\*    .unwrap_or(true)
check_claim(a, b) ==
    IF a = None THEN TRUE
    ELSE IF b = None THEN FALSE
    ELSE a[1] = b[1]

\* impl ValidationClaims for GithubOidcClaims: fn validate(&self, claims)
GithubValidate(self, claims) ==
    /\ check_claim(self["jti"], claims["jti"])
    /\ check_claim(self["sub"], claims["sub"])
    /\ check_claim(self["aud"], claims["aud"])
    /\ check_claim(self["ref_"], claims["ref_"])
    /\ check_claim(self["repository"], claims["repository"])
    /\ check_claim(self["repository_owner"], claims["repository_owner"])
    /\ check_claim(self["actor_id"], claims["actor_id"])
    /\ check_claim(self["repository_id"], claims["repository_id"])
    /\ check_claim(self["repository_owner_id"], claims["repository_owner_id"])
    /\ check_claim(self["actor"], claims["actor"])
    /\ check_claim(self["workflow"], claims["workflow"])
    /\ check_claim(self["head_ref"], claims["head_ref"])
    /\ check_claim(self["base_ref"], claims["base_ref"])
    /\ check_claim(self["event_name"], claims["event_name"])
    /\ check_claim(self["ref_type"], claims["ref_type"])
    /\ check_claim(self["job_workflow_ref"], claims["job_workflow_ref"])
    /\ check_claim(self["iss"], claims["iss"])

\* impl ValidationClaims for Claims (providers/mod.rs): the only variant is GitHub
ClaimsValidate(self, claims) == GithubValidate(self, claims)

(***************************************************************************)
(* SpecMatcher: the matcher applied to bounded inputs.  Up to MaxActive    *)
(* fields take every combination of None, Some("") and Some("a") on both   *)
(* sides; the other fields share one of three backgrounds.                 *)
(***************************************************************************)
MaxActive == 2

OptValues == {None, Some(""), Some("a")}

Backgrounds == { <<None, None>>, <<None, Some("a")>>, <<Some("a"), Some("a")>> }

RECURSIVE ActiveSets(_)
ActiveSets(k) ==
    IF k = 0 THEN { {} }
    ELSE LET prev == ActiveSets(k - 1)
         IN  prev \cup { S \cup {f} : S \in prev, f \in FieldSet }

NoClaims == [f \in FieldSet |-> None]

\* the variables of the other components, at rest
IdleVerify ==
    /\ jwt = None
    /\ vprov = None
    /\ vclaims = None
    /\ vres = None

IdleMatcher ==
    /\ constraint = <<>>
    /\ presented = <<>>
    /\ matched = None

InitMatcher ==
    /\ IdleVerify
    /\ IdleFlow
    /\ \E S \in ActiveSets(MaxActive), bg \in Backgrounds :
         \E c \in [S -> OptValues], p \in [S -> OptValues] :
            /\ constraint = [f \in FieldSet |-> IF f \in S THEN c[f] ELSE bg[1]]
            /\ presented = [f \in FieldSet |-> IF f \in S THEN p[f] ELSE bg[2]]
    /\ matched = None

Match ==
    /\ matched = None
    /\ matched' = Some(ClaimsValidate(constraint, presented))
    /\ UNCHANGED <<constraint, presented, verifyVars, policyVars, envVars, taskVars,
                   minterVars, ctxVars, hist>>

NextMatcher == Match

SpecMatcher == InitMatcher /\ [][NextMatcher]_vars

\* C1: the matcher returns true iff, for each of the 17 fields, the constraint
\* field is absent, or the presented field is present and equal to it; a present
\* constraint field (even Some("")) against an absent presented field fails.
C1_MatcherIffFieldwise ==
    matched # None =>
        /\ matched[1] = (\A f \in FieldSet :
                        \/ constraint[f] = None
                        \/ (presented[f] # None /\ presented[f][1] = constraint[f][1]))
        /\ (\E f \in FieldSet : constraint[f] # None /\ presented[f] = None)
              => matched[1] = FALSE

\* a required empty string against an absent field has been rejected, and a
\* match with a required field has been found
C1_Witness ==
    /\ matched = Some(FALSE)
    /\ constraint["job_workflow_ref"] = Some("")
    /\ presented["job_workflow_ref"] = None
    /\ \A f \in FieldSet \ {"job_workflow_ref"} :
          constraint[f] = None \/ constraint[f] = presented[f]

(***************************************************************************)
(* oidc.rs: ResolvedOidcConfig::validate                                   *)
(*                                                                         *)
(* A JWT is a record: wellformed (its header parses), the header's kid and *)
(* alg, the signature, and the payload claims iss, aud, repository and     *)
(* whether exp has passed.  A signature is [key, alg]: made with the key   *)
(* material and under the algorithm named; with an HMAC algorithm the key  *)
(* is the shared secret, so a signature [key |-> m, alg |-> "HS256"] over  *)
(* the material m of an RSA JWK is what an attacker who knows the public   *)
(* key can produce.                                                        *)
(***************************************************************************)

\* jsonwebtoken::Algorithm, the values key_algo_to_algo can return
Algorithms ==
    { "HS256", "HS384", "HS512", "ES256", "ES384", "RS256", "RS384", "RS512",
      "PS256", "PS384", "PS512", "EdDSA" }

\* jsonwebtoken's Algorithm::family
AlgFamily(alg) ==
    CASE alg \in {"HS256", "HS384", "HS512"} -> "Hmac"
      [] alg \in {"RS256", "RS384", "RS512", "PS256", "PS384", "PS512"} -> "Rsa"
      [] alg \in {"ES256", "ES384"} -> "Ec"
      [] OTHER -> "Ed"

\* the key family DecodingKey::from_jwk gives a JWK of key type kty
KeyFamily(jwk) ==
    CASE jwk.kty = "RSA" -> "Rsa"
      [] jwk.kty = "EC" -> "Ec"
      [] jwk.kty = "oct" -> "Hmac"
      [] OTHER -> "Ed"

\* fn key_algo_to_algo(key_algorithm: KeyAlgorithm) -> Result<Algorithm, OidcError>
key_algo_to_algo(key_algorithm) ==
    CASE key_algorithm = "HS256" -> [ok |-> TRUE, alg |-> "HS256"]
      [] key_algorithm = "HS384" -> [ok |-> TRUE, alg |-> "HS384"]
      [] key_algorithm = "HS512" -> [ok |-> TRUE, alg |-> "HS512"]
      [] key_algorithm = "ES256" -> [ok |-> TRUE, alg |-> "ES256"]
      [] key_algorithm = "ES384" -> [ok |-> TRUE, alg |-> "ES384"]
      [] key_algorithm = "RS256" -> [ok |-> TRUE, alg |-> "RS256"]
      [] key_algorithm = "RS384" -> [ok |-> TRUE, alg |-> "RS384"]
      [] key_algorithm = "RS512" -> [ok |-> TRUE, alg |-> "RS512"]
      [] key_algorithm = "PS256" -> [ok |-> TRUE, alg |-> "PS256"]
      [] key_algorithm = "PS384" -> [ok |-> TRUE, alg |-> "PS384"]
      [] key_algorithm = "PS512" -> [ok |-> TRUE, alg |-> "PS512"]
      [] key_algorithm = "EdDSA" -> [ok |-> TRUE, alg |-> "EdDSA"]
      [] OTHER -> [ok |-> FALSE, alg |-> key_algorithm]

\* the issuer records Context::new stores: the issuer of the discovery document
\* and the JWKS fetched from its jwks_uri.  A JWK is [kid, kty, alg, key, loads]:
\* key_id, key type, key_algorithm (optional), the key material, and whether
\* DecodingKey::from_jwk can build a key from it.
IssuerA == "https://a.test/oidc"

IssuerB == "https://b.test/oidc"

Jwk(kid, kty, alg, key, loads) ==
    [kid |-> kid, kty |-> kty, alg |-> alg, key |-> key, loads |-> loads]

Providers ==
    << [issuer |-> IssuerA,
        jwks |-> << Jwk(Some("k1"), "RSA", Some("RS256"), "rsa-a1", TRUE),
                    Jwk(Some("ks"), "RSA", Some("RS256"), "rsa-shared", TRUE),
                    Jwk(Some("k2"), "RSA", None, "rsa-a2", TRUE) >>],
       [issuer |-> IssuerB,
        \* k1 collides with a kid of issuer A; ks is a key both issuers publish
        jwks |-> << Jwk(Some("k1"), "RSA", Some("RS256"), "rsa-b1", TRUE),
                    Jwk(Some("ks"), "RSA", Some("RS256"), "rsa-shared", TRUE),
                    Jwk(Some("k3"), "oct", Some("HS256"), "hmac-b3", TRUE),
                    Jwk(Some("k4"), "RSA", Some("RSA-OAEP"), "rsa-b4", TRUE),
                    Jwk(None, "RSA", Some("RS256"), "rsa-b5", TRUE),
                    Jwk(Some("k6"), "EC", None, "ec-b6", FALSE) >>] >>

ProviderIds == 1..Len(Providers)

\* JwkSet::find: the first key whose key_id is kid
RECURSIVE FindFrom(_, _, _)
FindFrom(jwks, kid, i) ==
    IF i > Len(jwks) THEN None
    ELSE IF jwks[i].kid = Some(kid) THEN Some(jwks[i])
    ELSE FindFrom(jwks, kid, i + 1)

JwksFind(jwks, kid) == FindFrom(jwks, kid, 1)

\* jsonwebtoken's signature check of a token under a key and an algorithm
VerifySignature(sig, jwk, alg) == sig.key = jwk.key /\ sig.alg = alg

\* a mutant: the validator is built for the algorithm the token header names
ValidationAlgorithmFromHeader(jwk_alg, header_alg) == header_alg

\* the algorithm validate hands to Validation::new: key_algo_to_algo of the JWK's
\* key_algorithm; the token header's alg is not consulted
ValidationAlgorithm(jwk_alg, header_alg) == jwk_alg

\* a mutant: validate does not call set_issuer
ValidationIssuerUnset(issuer) == None

\* validation.set_issuer(&[&self.issuer])
ValidationIssuer(issuer) == Some({issuer})

\* validate never calls set_audience: Validation::new leaves aud unset
ValidationAudience == None

\* Validation::new(alg) with set_issuer applied
Validation(alg, issuer) ==
    [algorithms |-> {alg}, iss |-> ValidationIssuer(issuer), aud |-> ValidationAudience]

Reject(err, cause, validation) ==
    [ok |-> FALSE, err |-> err, cause |-> cause, validation |-> validation]

Accept(validation) ==
    [ok |-> TRUE, err |-> "", cause |-> "", validation |-> validation]

\* the claims jsonwebtoken::decode::<Claims> deserializes from the payload
TokenClaims(token) ==
    [f \in FieldSet |->
        CASE f = "iss" -> token.iss
          [] f = "aud" -> token.aud
          [] f = "repository" -> token.repository
          [] OTHER -> None]

\* jsonwebtoken's validation of the iss claim.  Whether a token without iss passes
\* when an issuer is set depends on the crate version (8 rejects, 9 passes): both.
IssOutcomes(token, validation) ==
    IF validation.iss = None THEN {TRUE}
    ELSE IF token.iss = None THEN {TRUE, FALSE}
    ELSE {token.iss[1] \in validation.iss[1]}

\* jsonwebtoken's validation of the aud claim.  With no audience set, whether a
\* token that carries aud passes depends on the crate version (8 ignores the
\* claim, 9 rejects the token); with one set, so does a token without aud: both.
AudOutcomes(token, validation) ==
    IF validation.aud = None
    THEN IF token.aud = None THEN {TRUE} ELSE {TRUE, FALSE}
    ELSE IF token.aud = None THEN {TRUE, FALSE}
    ELSE {token.aud[1] \in validation.aud[1]}

\* jsonwebtoken::decode(token, &decoding_key, &validation): the causes of its
\* errors in the order it checks, or "" when the token decodes
DecodeOutcomes(token, jwk, validation) ==
    IF \E alg \in validation.algorithms : KeyFamily(jwk) # AlgFamily(alg)
    THEN {"InvalidAlgorithm"}
    ELSE IF token.alg \notin validation.algorithms THEN {"InvalidAlgorithm"}
    ELSE IF ~VerifySignature(token.sig, jwk, token.alg) THEN {"InvalidSignature"}
    ELSE IF token.expired THEN {"ExpiredSignature"}
    ELSE { IF ~i THEN "InvalidIssuer" ELSE IF ~a THEN "InvalidAudience" ELSE "" :
             i \in IssOutcomes(token, validation), a \in AudOutcomes(token, validation) }

\* a mutant: every JWK is taken to give a decoding key
KeyLoadsAlways(jwk) == TRUE

\* DecodingKey::from_jwk(&jwk) gives a key: the key material of the JWK is sound
KeyLoads(jwk) == jwk.loads

\* pub fn validate(&self, token: &str, claims: &Claims) -> Result<(), OidcError>
\* every result the call can have
ValidateOutcomes(self, token, claims) ==
    IF ~token.wellformed THEN {Reject("InvalidHeader", "", None)}
    ELSE IF token.kid = None THEN {Reject("MissingKid", "", None)}
    ELSE LET found == JwksFind(self.jwks, token.kid[1]) IN
    IF found = None THEN {Reject("UnknownKid", "", None)}
    ELSE LET jwk == found[1] IN
    IF ~KeyLoads(jwk) THEN {Reject("InvalidKey", "", None)}
    ELSE IF jwk.alg = None THEN {Reject("MissingKeyAlgorithm", "", None)}
    ELSE LET algo == key_algo_to_algo(jwk.alg[1]) IN
    IF ~algo.ok THEN {Reject("UnsupportedAlgorithm", "", None)}
    ELSE LET validation == Validation(ValidationAlgorithm(algo.alg, token.alg), self.issuer) IN
    { IF cause # "" THEN Reject("InvalidToken", cause, Some(validation))
      ELSE IF ClaimsValidate(claims, TokenClaims(token)) THEN Accept(Some(validation))
      ELSE Reject("ValidationFailed", "", Some(validation)) :
        cause \in DecodeOutcomes(token, jwk, validation) }

(***************************************************************************)
(* SpecVerify: validate applied to every JWT of a bounded set, on either   *)
(* issuer record, with one of three claim constraints.                     *)
(***************************************************************************)

\* the audience the deployment requires of incoming tokens
\* (TokenClaims.audience of an authorization; validate is not given it)
RequiredAudience == "aud-123"

TokenKids == {None, Some("k1"), Some("ks"), Some("k2"), Some("k3"), Some("k4"),
              Some("k6"), Some("kx")}

TokenAlgs == {"RS256", "RS384", "HS256"}

Signatures ==
    [key : {"rsa-a1", "rsa-b1", "rsa-shared", "hmac-b3", "attacker"}, alg : TokenAlgs]

Tokens ==
    [wellformed : {TRUE}, kid : TokenKids, alg : TokenAlgs, sig : Signatures,
     iss : {None, Some(IssuerA), Some(IssuerB)},
     aud : {None, Some(RequiredAudience), Some("other")},
     expired : BOOLEAN, repository : {Some("acme/app"), Some("evil/app")}]
    \cup
    { [wellformed |-> FALSE, kid |-> None, alg |-> "RS256",
       sig |-> [key |-> "attacker", alg |-> "RS256"], iss |-> None, aud |-> None,
       expired |-> FALSE, repository |-> None] }

ConstraintChoices ==
    { NoClaims,
      [NoClaims EXCEPT !["repository"] = Some("acme/app")],
      [NoClaims EXCEPT !["aud"] = Some(RequiredAudience)] }

InitVerify ==
    /\ IdleMatcher
    /\ IdleFlow
    /\ jwt \in {Some(t) : t \in Tokens}
    /\ vprov = None
    /\ vclaims = None
    /\ vres = None

Validate ==
    /\ vres = None
    /\ \E p \in ProviderIds, c \in ConstraintChoices :
         \E r \in ValidateOutcomes(Providers[p], jwt[1], c) :
            /\ vprov' = Some(p)
            /\ vclaims' = Some(c)
            /\ vres' = Some(r)
    /\ UNCHANGED <<jwt, matcherVars, policyVars, envVars, taskVars, minterVars, ctxVars, hist>>

NextVerify == Validate

SpecVerify == InitVerify /\ [][NextVerify]_vars

\* the JWK of the issuer record validate ran on that the token's kid selects
SelectedJwk == JwksFind(Providers[vprov[1]].jwks, jwt[1].kid[1])

\* C3: verification rejects a token whose aud differs from the configured
\* audience: the validator's accepted audience is the required audience.
C3_AudienceEnforced ==
    Ran(vres) =>
        /\ vres[1].validation # None
              => vres[1].validation[1].aud = Some({RequiredAudience})
        /\ jwt[1].aud # Some(RequiredAudience) => ~vres[1].ok

\* C4: the algorithm a token is verified under is the one the JWK selected by
\* its kid declares, never the one its header names; a token whose header says
\* HS256 and whose kid resolves to an RSA JWK is rejected.
C4_AlgorithmFromJwk ==
    Ran(vres) =>
        /\ vres[1].validation # None =>
              /\ SelectedJwk # None
              /\ vres[1].validation[1].algorithms = {SelectedJwk[1].alg[1]}
        /\ vres[1].ok =>
              /\ jwt[1].alg = SelectedJwk[1].alg[1]
              /\ VerifySignature(jwt[1].sig, SelectedJwk[1], SelectedJwk[1].alg[1])
        /\ ( /\ jwt[1].alg = "HS256"
             /\ jwt[1].kid # None
             /\ SelectedJwk # None
             /\ SelectedJwk[1].kty = "RSA" ) => ~vres[1].ok

\* a token HMAC-signed with the material of issuer A's RSA key k1, its header
\* naming HS256, has been presented to issuer A and rejected by the decoder
C4_Witness ==
    /\ Ran(vres)
    /\ vprov = Some(1)
    /\ jwt[1].alg = "HS256"
    /\ jwt[1].kid = Some("k1")
    /\ jwt[1].sig = [key |-> "rsa-a1", alg |-> "HS256"]
    /\ ~vres[1].ok
    /\ vres[1].err = "InvalidToken"
    /\ vres[1].cause = "InvalidAlgorithm"

\* a JWT validly signed by the issuer of record p: signed with a key of p's JWKS
\* under the asymmetric algorithm that key declares, named by that key's kid,
\* with iss = p's issuer
ValidlySignedBy(token, p) ==
    /\ token.wellformed
    /\ token.iss = Some(Providers[p].issuer)
    /\ AlgFamily(token.sig.alg) # "Hmac"
    /\ token.alg = token.sig.alg
    /\ \E i \in 1..Len(Providers[p].jwks) :
          /\ Providers[p].jwks[i].kid # None
          /\ Providers[p].jwks[i].kid = token.kid
          /\ Providers[p].jwks[i].key = token.sig.key
          /\ Providers[p].jwks[i].alg = Some(token.sig.alg)

RECURSIVE IndexFrom(_, _, _)
IndexFrom(s, ch, i) ==
    IF i > Len(s) THEN 0
    ELSE IF s[i] = ch THEN i
    ELSE IndexFrom(s, ch, i + 1)

\* str::contains(ch)
contains(s, ch) == IndexFrom(s, ch, 1) # 0

\* str::split_once(ch): what precedes and what follows the first ch
split_once(s, ch) ==
    LET k == IndexFrom(s, ch, 1)
    IN  IF k = 0 THEN None
        ELSE Some(<<SubSeq(s, 1, k - 1), SubSeq(s, k + 1, Len(s))>>)

RepoAX == <<"a", "/", "x">>

RepoAY == <<"a", "/", "y">>

RepoBY == <<"b", "/", "y">>

PermCR == <<"c", ":", "r">>

PermIW == <<"i", ":", "w">>

(***************************************************************************)
(* policy.rs: Policy::ensure_allowed, ensure_permutation, github_visibility *)
(***************************************************************************)

\* the bounds of the task model
MaxTasks == 2

MaxClock == 3

\* the clock counts in units of 1/TicksPerHour hour
TicksPerHour == 2

Tasks == 1..MaxTasks

\* Duration::hours(1)
TTL == TicksPerHour

\* the visibilities GitHub reports for a repository; it may report another one
\* at every lookup, as a repository's visibility can be changed at any time
Visibilities == {"public", "private"}

\* an entry of the history: its kind, the task, two arguments, and the time the
\* task read from the clock in that step (0 when it read none)
Event(e, t, a, b) == [e |-> e, t |-> t, a |-> a, b |-> b, at |-> 0]

EventAt(e, t, a, b) == [e |-> e, t |-> t, a |-> a, b |-> b, at |-> clock]

\* the errors and the success of ensure_allowed
Ok(v) == [ok |-> TRUE, err |-> "", val |-> v]

Err(e, v) == [ok |-> FALSE, err |-> e, val |-> v]

\* impl Display for OxideClass: "silo {silo}"
RenderOxide(fact) == <<"silo ", fact.silo>>

\* impl Display for GitHubClass: "permission {permission} on repository {repository}"
RenderGitHub(fact) ==
    <<"permission ">> \o fact.permission \o <<" on repository ">> \o fact.repository

\* OxideClass { silo, duration } of a request
OxideFact(r) == [silo |-> r.silo, duration |-> r.duration]

\* GitHubClass { repository, repository_visibility, permission }
GitHubFact(repository, visibility, permission) ==
    [repository |-> repository, repository_visibility |-> visibility,
     permission |-> permission]

\* a mutant: the rules decide a fact anew at every evaluation
QueryRuleAnew(fact) == {"allow", "deny", "error"}

\* what oso's query_rule("allow_request", ..).next() gives for a fact: the rule
\* file is fixed at startup, so a fact once decided is decided the same way
QueryRule(fact) ==
    IF \E d \in decided : d[1] = fact
    THEN {d[2] : d \in {x \in decided : x[1] = fact}}
    ELSE {"allow", "deny", "error"}

\* a mutant: the cache is never consulted
CacheNeverHit(repo) == FALSE

\* cache.get(repo) is Some(cached) && cached.expires_at >= Utc::now()
CacheHit(repo) ==
    /\ cache[repo] # None
    /\ cache[repo][1].expires_at >= clock

\* a mutant: the guard of the first lock lives until the function returns
ReleaseNever(t) == t

\* the block around the cache check ends before the await: its guard is dropped
ReleaseBeforeAwait(t) == 0

CurrentRepo(t) == req[t].repositories[ri[t]]

\* ensure_allowed moves on after the permissions of a repository: to the
\* visibility of the next repository, or it returns Ok(())
Advance(t, h) ==
    IF ri[t] < Len(req[t].repositories)
    THEN /\ ri' = [ri EXCEPT ![t] = ri[t] + 1]
         /\ pc' = [pc EXCEPT ![t] = "gv_lock"]
         /\ hist' = Append(h, Event("vis_call", t, req[t].repositories[ri[t] + 1], ""))
         /\ UNCHANGED result
    ELSE /\ pc' = [pc EXCEPT ![t] = "ea_done"]
         /\ result' = [result EXCEPT ![t] = Some(Ok(""))]
         /\ hist' = Append(h, Event("ea_ret", t, "Ok", ""))
         /\ UNCHANGED ri

\* github_visibility returned Ok(v): the loop over the permissions starts
VisibilityReturned(t, v, h2) ==
    /\ vis' = [vis EXCEPT ![t] = v]
    /\ IF req[t].permissions # <<>>
       THEN /\ pc' = [pc EXCEPT ![t] = "ea_perm"]
            /\ pi' = [pi EXCEPT ![t] = 1]
            /\ hist' = h2
            /\ UNCHANGED <<ri, result>>
       ELSE /\ Advance(t, h2)
            /\ UNCHANGED pi

\* a mutant: an error of the engine counts as an answer of the rules
EngineErrorAllows(d, string_repr) ==
    IF d = "deny" THEN Err("NotMatching", string_repr) ELSE Ok("")

\* ensure_permutation, the match on result.next(): Some(Ok(_)) is Ok(()), no
\* result is NotMatching(string_repr), and an error of the engine, from
\* query_rule or from the first result, is PolicyError::Oso
ensure_permutation(d, string_repr) ==
    CASE d = "allow" -> Ok("")
      [] d = "deny" -> Err("NotMatching", string_repr)
      [] OTHER -> Err("Oso", "")

\* ensure_allowed, TokenRequest::Oxide: one fact, one ensure_permutation
EnsureAllowedOxide(t) ==
    /\ pc[t] = "idle"
    /\ req[t].service = "oxide"
    /\ LET fact == OxideFact(req[t]) IN
       \E d \in QueryRule(fact) :
          /\ decided' = decided \cup {<<fact, d>>}
          /\ hist' = Append(Append(hist, Event("eval", t, fact, d)),
                            Event("ea_ret", t, d, ""))
          /\ result' = [result EXCEPT ![t] =
                          Some(ensure_permutation(d, RenderOxide(fact)))]
    /\ pc' = [pc EXCEPT ![t] = "ea_done"]
    /\ UNCHANGED <<matcherVars, verifyVars, minterVars, ctxVars, cache, lock, envVars, req, ri, pi, vis>>

\* ensure_allowed, TokenRequest::GitHub: enters the loop over the repositories
EnsureAllowedGitHub(t) ==
    /\ pc[t] = "idle"
    /\ req[t].service = "github"
    /\ IF req[t].repositories = <<>>
       THEN /\ pc' = [pc EXCEPT ![t] = "ea_done"]
            /\ result' = [result EXCEPT ![t] = Some(Ok(""))]
            /\ hist' = Append(hist, Event("ea_ret", t, "Ok", ""))
            /\ UNCHANGED ri
       ELSE /\ pc' = [pc EXCEPT ![t] = "gv_lock"]
            /\ ri' = [ri EXCEPT ![t] = 1]
            /\ hist' = Append(hist, Event("vis_call", t, req[t].repositories[1], ""))
            /\ UNCHANGED result
    /\ UNCHANGED <<matcherVars, verifyVars, minterVars, ctxVars, policyVars, envVars, req, pi, vis>>

\* github_visibility: self.github_visibility_cache.lock().unwrap()
GvLock(t) ==
    /\ pc[t] = "gv_lock"
    /\ lock = 0
    /\ lock' = t
    /\ pc' = [pc EXCEPT ![t] = "gv_check"]
    /\ UNCHANGED <<matcherVars, verifyVars, minterVars, ctxVars, cache, decided, envVars, req, ri, pi, vis,
                   result, hist>>

\* a mutant: the guard of the lock outlives the return of the cached value
GuardLeaked(t) == t

\* return Ok(cached.visibility.clone()) leaves the block: the guard is dropped
GuardDropped(t) == 0

\* github_visibility: the lookup under the lock; a live entry is returned, else
\* the lock is released and repository_visibility(repo) is called and awaited
GvCheck(t) ==
    /\ pc[t] = "gv_check"
    /\ lock = t
    /\ IF CacheHit(CurrentRepo(t))
       THEN /\ lock' = GuardDropped(t)
            /\ LET v == cache[CurrentRepo(t)][1].visibility IN
               VisibilityReturned(t, v, Append(hist, EventAt("vis_ret", t, CurrentRepo(t), v)))
       ELSE /\ lock' = ReleaseBeforeAwait(t)
            /\ pc' = [pc EXCEPT ![t] = "gv_await"]
            /\ hist' = Append(hist, EventAt("http", t, "visibility", CurrentRepo(t)))
            /\ UNCHANGED <<ri, pi, vis, result>>
    /\ UNCHANGED <<matcherVars, verifyVars, minterVars, ctxVars, cache, decided, envVars, req>>

\* a mutant: the failure is cached for an hour, like a visibility
CacheAfterFailureNegative(t) ==
    [cache EXCEPT ![CurrentRepo(t)] =
        Some([visibility |-> "error", expires_at |-> clock + TTL])]

\* .map_err(|e| PolicyError::GetVisibility(repo.into(), e))? returns before the
\* insert: the cache after a failed lookup is the cache before it
CacheAfterFailure(t) == cache

\* GitHubTokens::repository_visibility(repo).await answers: the visibility the
\* repository has at GitHub by now, or an error, mapped to PolicyError::GetVisibility
GvRespond(t) ==
    /\ pc[t] = "gv_await"
    /\ \/ /\ \E v \in Visibilities :
                /\ vis' = [vis EXCEPT ![t] = v]
                /\ hist' = Append(hist, Event("fetched", t, CurrentRepo(t), v))
          /\ pc' = [pc EXCEPT ![t] = "gv_insert"]
          /\ UNCHANGED <<result, cache>>
       \/ /\ result' = [result EXCEPT ![t] = Some(Err("GetVisibility", CurrentRepo(t)))]
          /\ pc' = [pc EXCEPT ![t] = "ea_done"]
          /\ hist' = Append(Append(hist, Event("vis_ret", t, CurrentRepo(t), "error")),
                            Event("ea_ret", t, "GetVisibility", ""))
          /\ cache' = CacheAfterFailure(t)
          /\ UNCHANGED vis
    /\ UNCHANGED <<matcherVars, verifyVars, minterVars, ctxVars, lock, decided, envVars, req, ri, pi>>

\* a mutant: the entry lives one tick longer than the hour
ExpiresLate(now) == now + TTL + 1

\* expires_at: Utc::now() + Duration::hours(1)
ExpiresAt(now) == now + TTL

\* a mutant: the insert keeps the value of an entry that is already there
InsertedIfAbsent(t) ==
    IF cache[CurrentRepo(t)] # None THEN cache[CurrentRepo(t)][1].visibility ELSE vis[t]

\* visibility: visibility.clone(): the value this call fetched, whatever the
\* entry holds by now
InsertedVisibility(t) == vis[t]

\* github_visibility: lock().unwrap().insert(repo, CachedVisibility { visibility,
\* expires_at: Utc::now() + Duration::hours(1) }) and Ok(visibility)
GvInsert(t) ==
    /\ pc[t] = "gv_insert"
    /\ lock = 0
    /\ cache' = [cache EXCEPT ![CurrentRepo(t)] =
                    Some([visibility |-> InsertedVisibility(t), expires_at |-> ExpiresAt(clock)])]
    /\ VisibilityReturned(t, vis[t], Append(hist, EventAt("vis_ret", t, CurrentRepo(t), vis[t])))
    /\ UNCHANGED <<matcherVars, verifyVars, minterVars, ctxVars, lock, decided, envVars, req>>

\* a mutant: the loop over the permissions ends after its first round
FirstPermissionOnly(t) == TRUE

\* for permission in &github.permissions: the current round is the last
LastPermission(t) == pi[t] >= Len(req[t].permissions)

\* ensure_permutation for the current (repository, permission) pair
EvalFact(t) ==
    /\ pc[t] = "ea_perm"
    /\ LET fact == GitHubFact(CurrentRepo(t), vis[t], req[t].permissions[pi[t]]) IN
       \E d \in QueryRule(fact) :
          /\ decided' = decided \cup {<<fact, d>>}
          /\ LET h == Append(hist, Event("eval", t, fact, d))
                 r == ensure_permutation(d, RenderGitHub(fact))
             IN  IF r.ok
                 THEN IF ~LastPermission(t)
                      THEN /\ pi' = [pi EXCEPT ![t] = pi[t] + 1]
                           /\ hist' = h
                           /\ UNCHANGED <<pc, ri, result>>
                      ELSE /\ Advance(t, h)
                           /\ UNCHANGED pi
                 ELSE \* the ? of ensure_allowed returns the error
                      /\ result' = [result EXCEPT ![t] = Some(r)]
                      /\ pc' = [pc EXCEPT ![t] = "ea_done"]
                      /\ hist' = Append(h, Event("ea_ret", t, r.err, ""))
                      /\ UNCHANGED <<ri, pi>>
    /\ UNCHANGED <<matcherVars, verifyVars, minterVars, ctxVars, cache, lock, envVars, req, vis>>

\* time passes
Tick ==
    /\ clock < MaxClock
    /\ clock' = clock + 1
    /\ UNCHANGED <<matcherVars, verifyVars, policyVars, taskVars, minterVars, ctxVars, hist>>

(***************************************************************************)
(* token/github.rs: GitHubTokens::get                                      *)
(***************************************************************************)

RepoJunk == <<"j">>

RepoDeep == <<"a", "/", "x", "/", "z">>

PermCW == <<"c", ":", "w">>

PermJunk == <<"p">>

PermSlash == <<"a", "/", "b", ":", "r">>

\* a mutant: the namespace of a repository is not compared with the one found
AnyNamespace(found, namespace) == TRUE

\* !(found_namespace.is_some() && found_namespace != Some(namespace))
SameNamespace(found, namespace) == found = None \/ found = Some(namespace)

\* the loop over request.repositories from its i-th round on: the error it
\* returns, or the namespace and the repository names without it
RECURSIVE ScanRepositories(_, _, _, _)
ScanRepositories(repos, i, found, names) ==
    IF i > Len(repos)
    THEN IF found = None THEN Err("NoRepositories", "")
         ELSE Ok([namespace |-> found[1], names |-> names])
    ELSE LET sp == split_once(repos[i], "/") IN
         IF sp # None /\ ~contains(sp[1][2], "/")
         THEN IF ~SameNamespace(found, sp[1][1]) THEN Err("DifferentOrgs", "")
              ELSE ScanRepositories(repos, i + 1, Some(sp[1][1]), Append(names, sp[1][2]))
         ELSE Err("NotAGitHubRepository", repos[i])

\* a mutant: a name is inserted over the one the map holds
NameNeverTaken(map, name) == FALSE

\* permissions.insert(name, level) returns Some(_): the map holds the name
NameTaken(map, name) == \E e \in map : e[1] = name

\* the loop over request.permissions from its i-th round on: the error it
\* returns, or the map from permission names to levels (a set of pairs)
RECURSIVE ScanPermissions(_, _, _)
ScanPermissions(perms, i, map) ==
    IF i > Len(perms) THEN Ok(map)
    ELSE LET sp == split_once(perms[i], ":") IN
         IF sp # None /\ ~contains(sp[1][1], "/")
         THEN IF NameTaken(map, sp[1][1]) THEN Err("DuplicatePermission", sp[1][1])
              ELSE ScanPermissions(perms, i + 1, map \cup {<<sp[1][1], sp[1][2]>>})
         ELSE Err("NotAPermission", perms[i])

\* get returns: the task is done with the minter
GetReturns(t, r) ==
    /\ mres' = [mres EXCEPT ![t] = Some(r)]
    /\ pc' = [pc EXCEPT ![t] = "gh_done"]

\* get up to its first await: the credentials, the app JWT, the repositories
\* and the permissions
GetValidate(t) ==
    /\ pc[t] = "gh_start"
    /\ LET repos == ScanRepositories(req[t].repositories, 1, None, <<>>)
           perms == ScanPermissions(req[t].permissions, 1, {})
       IN  IF ghcfg = "unconfigured"
           THEN GetReturns(t, Err("NoCredentials", "")) /\ UNCHANGED mint
           ELSE IF ghcfg = "unsignable"
           THEN GetReturns(t, Err("EncodeJwt", "")) /\ UNCHANGED mint
           ELSE IF ~repos.ok THEN GetReturns(t, repos) /\ UNCHANGED mint
           ELSE IF ~perms.ok THEN GetReturns(t, perms) /\ UNCHANGED mint
           ELSE /\ mint' = [mint EXCEPT ![t] =
                              Some([namespace |-> repos.val.namespace,
                                    names |-> repos.val.names,
                                    permissions |-> perms.val,
                                    found_installation |-> None])]
                /\ pc' = [pc EXCEPT ![t] = "gh_orgs"]
                /\ UNCHANGED mres
    /\ UNCHANGED <<matcherVars, verifyVars, policyVars, envVars, req, ri, pi, vis, result,
                   ghcfg, oxstate, ctx, resp, hist>>

\* what github_request returns when it fails: Http when the request or the
\* reading of the body fails, GitHubError(url, status, message) for a status
\* that is no success
GitHubRequestError(answer, url) ==
    IF answer = "GitHubError"
    THEN Err("GitHubError", [url |-> url, status |-> 500, message |-> "upstream message"])
    ELSE Err("Http", "")

\* the id GitHub reports for the installation on an organization or on a user
InstallationId(kind) == IF kind = "orgs" THEN "org-installation" ELSE "user-installation"

\* a mutant: a failed lookup is taken for a 404
LookupNeverFails(answer) == FALSE

\* Err(err) => return Err(err): an error that is no GitHubError with status 404
LookupFails(answer) == answer \in {"GitHubError", "Http"}

\* one round of the loop over ["orgs", "users"]: GET {kind}/{namespace}/installation
\* is sent and answered; a 404 and a success go on to the next round, and after
\* the last round the installation is settled
GetInstallation(t) ==
    /\ pc[t] \in {"gh_orgs", "gh_users"}
    /\ LET kind == IF pc[t] = "gh_orgs" THEN "orgs" ELSE "users"
           m == mint[t][1]
       IN  \E answer \in {"ok", "not_found", "GitHubError", "Http"} :
              /\ hist' = Append(Append(hist, Event("http", t, kind, m.namespace)),
                                Event("http_ret", t, kind, answer))
              /\ IF LookupFails(answer)
                 THEN GetReturns(t, GitHubRequestError(answer, kind)) /\ UNCHANGED mint
                 ELSE LET found == IF answer = "ok" THEN Some(InstallationId(kind))
                                   ELSE m.found_installation
                      IN  /\ mint' = [mint EXCEPT ![t] =
                                         Some([m EXCEPT !.found_installation = found])]
                          /\ IF kind = "orgs"
                             THEN pc' = [pc EXCEPT ![t] = "gh_users"] /\ UNCHANGED mres
                             ELSE IF found = None
                             THEN GetReturns(t, Err("AppNotInstalled", m.namespace))
                             ELSE pc' = [pc EXCEPT ![t] = "gh_post"] /\ UNCHANGED mres
    /\ UNCHANGED <<matcherVars, verifyVars, policyVars, envVars, req, ri, pi, vis, result,
                   ghcfg, oxstate, ctx, resp>>

\* POST app/installations/{installation}/access_tokens is sent and answered
GetPost(t) ==
    /\ pc[t] = "gh_post"
    /\ LET m == mint[t][1] IN
       \E answer \in {"ok", "GitHubError", "Http"} :
          /\ hist' = Append(Append(hist, Event("http", t, "access_tokens",
                                               [installation |-> m.found_installation[1],
                                                repositories |-> m.names,
                                                permissions |-> m.permissions])),
                            Event("http_ret", t, "access_tokens", answer))
          /\ GetReturns(t, IF answer = "ok" THEN Ok("ghs-token")
                           ELSE GitHubRequestError(answer, "access_tokens"))
    /\ UNCHANGED <<matcherVars, verifyVars, policyVars, envVars, req, ri, pi, vis, result,
                   ghcfg, oxstate, ctx, mint, resp>>

(***************************************************************************)
(* SpecPolicy: one call of ensure_allowed, for an Oxide request or a GitHub *)
(* request over up to MaxList repositories and MaxList permissions, while   *)
(* time passes.                                                             *)
(***************************************************************************)

MaxList == 2

\* the sequences over S of length at most MaxList
Lists(S) == UNION {[1..n -> S] : n \in 0..MaxList}

GitHubRequest(repositories, permissions) ==
    [service |-> "github", repositories |-> repositories, permissions |-> permissions]

PolicyRepos == {RepoAX, RepoBY}

PolicyRequests(t) ==
    [service : {"oxide"}, silo : {"s1", "s2"}, duration : {0, 3600}]
    \cup [service : {"github"}, repositories : Lists(PolicyRepos),
          permissions : Lists({PermCR, PermIW})]

\* the request of a task that takes no part
NoRequest == [service |-> "none", repositories |-> <<>>, permissions |-> <<>>]

\* Policy::new: an empty cache, a free mutex; the active tasks about to start
InitTasks(repos, requests(_), active, start) ==
    /\ cache = [r \in repos |-> None]
    /\ lock = 0
    /\ decided = {}
    /\ clock = 0
    /\ pc = [t \in Tasks |-> IF t \in active THEN start ELSE "off"]
    /\ \E f \in [active -> UNION {requests(t) : t \in active}] :
          /\ \A t \in active : f[t] \in requests(t)
          /\ req = [t \in Tasks |-> IF t \in active THEN f[t] ELSE NoRequest]
    /\ ri = [t \in Tasks |-> 0]
    /\ pi = [t \in Tasks |-> 0]
    /\ vis = [t \in Tasks |-> ""]
    /\ result = [t \in Tasks |-> None]
    /\ mint = [t \in Tasks |-> None]
    /\ mres = [t \in Tasks |-> None]
    /\ resp = [t \in Tasks |-> None]
    /\ hist = <<>>

InitPolicy ==
    /\ IdleMatcher
    /\ IdleVerify
    /\ InitTasks(PolicyRepos, PolicyRequests, {1}, "idle")
    /\ ghcfg = "configured"
    /\ oxstate = <<>>
    /\ ctx = NoContext

NextPolicy ==
    \/ \E t \in Tasks : EnsureAllowedOxide(t)
    \/ \E t \in Tasks : EnsureAllowedGitHub(t)
    \/ \E t \in Tasks : GvLock(t)
    \/ \E t \in Tasks : GvCheck(t)
    \/ \E t \in Tasks : GvRespond(t)
    \/ \E t \in Tasks : GvInsert(t)
    \/ \E t \in Tasks : EvalFact(t)
    \/ Tick

SpecPolicy == InitPolicy /\ [][NextPolicy]_vars

\* the entries of one kind that a task wrote to the history, in order
EventsOf(t, kind) == SelectSeq(hist, LAMBDA ev : ev.t = t /\ ev.e = kind)

\* the atomic facts of a request, in the order of the loops: the k-th fact of a
\* GitHub request pairs repository (k-1) \div P + 1, with the visibility that
\* was returned for it, and permission (k-1) % P + 1
FactCount(r) ==
    IF r.service = "oxide" THEN 1 ELSE Len(r.repositories) * Len(r.permissions)

FactAt(t, k) ==
    IF req[t].service = "oxide" THEN OxideFact(req[t])
    ELSE LET P == Len(req[t].permissions)
             i == ((k - 1) \div P) + 1
             j == ((k - 1) % P) + 1
         IN  GitHubFact(req[t].repositories[i],
                        EventsOf(t, "vis_ret")[i].b,
                        req[t].permissions[j])

RenderFact(t, fact) ==
    IF req[t].service = "oxide" THEN RenderOxide(fact) ELSE RenderGitHub(fact)

\* every repository of the request had its visibility returned to the task
VisibilitiesReturned(t) ==
    req[t].service = "github" =>
        Len(SelectSeq(EventsOf(t, "vis_ret"), LAMBDA ev : ev.b # "error"))
            = Len(req[t].repositories)

\* the facts are evaluated in the order of the loops, each once, and the first
\* decision that is not allow ends the call: nothing of the task follows it but
\* its return
EvaluatedInOrder(t) ==
    LET evs == EventsOf(t, "eval")
        stops == {k \in 1..Len(hist) : hist[k].t = t /\ hist[k].e = "eval"
                                        /\ hist[k].b # "allow"}
    IN  /\ Len(evs) <= FactCount(req[t])
        /\ \A k \in 1..Len(evs) : evs[k].a = FactAt(t, k)
        /\ \A k \in 1..(Len(evs) - 1) : evs[k].b = "allow"
        /\ \A k \in stops : \A m \in (k + 1)..Len(hist) :
               hist[m].t = t => hist[m].e = "ea_ret"

\* every atomic fact of the request was evaluated and allowed
AllFactsAllowed(t) ==
    LET evs == EventsOf(t, "eval")
    IN  /\ Len(evs) = FactCount(req[t])
        /\ \A k \in 1..Len(evs) : evs[k].b = "allow"

\* a deny returns NotMatching rendered from the denied fact, and nothing else does
DenyIsNotMatching(t) ==
    LET evs == EventsOf(t, "eval")
        denied == evs # <<>> /\ evs[Len(evs)].b = "deny"
    IN  /\ denied => result[t][1] = Err("NotMatching", RenderFact(t, evs[Len(evs)].a))
        /\ result[t][1].err = "NotMatching" => denied

\* C6 as claimed: ensure_allowed returns Ok iff the evaluator yields allow for
\* every atomic fact of the request, each evaluated exactly once; the first deny
\* returns NotMatching and nothing is evaluated or fetched after it.
C6_Claimed ==
    \A t \in Tasks :
        /\ EvaluatedInOrder(t)
        /\ result[t] # None =>
              /\ result[t][1].ok <=> AllFactsAllowed(t)
              /\ DenyIsNotMatching(t)

\* C6 amended: ensure_allowed returns Ok iff every repository's visibility was
\* obtained and the evaluator yields allow for every atomic fact of the request,
\* each evaluated exactly once, in order; the first deny returns NotMatching
\* rendered from that fact and nothing is evaluated or fetched after it.
C6_EnsureAllowed ==
    \A t \in Tasks :
        /\ EvaluatedInOrder(t)
        /\ result[t] # None =>
              /\ result[t][1].ok <=> (VisibilitiesReturned(t) /\ AllFactsAllowed(t))
              /\ DenyIsNotMatching(t)

\* a GitHub request over two repositories and two permissions that was denied at
\* its second fact: the second repository was never looked up
C6_Witness ==
    \E t \in Tasks :
        /\ result[t] # None
        /\ result[t][1].err = "NotMatching"
        /\ req[t].service = "github"
        /\ Len(req[t].repositories) = 2
        /\ req[t].repositories[1] # req[t].repositories[2]
        /\ Len(EventsOf(t, "eval")) = 2
        /\ Len(EventsOf(t, "vis_call")) = 1

(***************************************************************************)
(* SpecCache: concurrent tasks looking up repository visibilities (GitHub  *)
(* requests without permissions, so that ensure_allowed is a sequence of   *)
(* github_visibility calls), while time passes.                            *)
(***************************************************************************)

CacheRepos == {RepoAX}

\* the second task looks the repository up once or twice, the others once
CacheRequests(t) ==
    IF t = 2 THEN { GitHubRequest(<<RepoAX>>, <<>>), GitHubRequest(<<RepoAX, RepoAX>>, <<>>) }
    ELSE { GitHubRequest(<<RepoAX>>, <<>>) }

InitCache ==
    /\ IdleMatcher
    /\ IdleVerify
    /\ InitTasks(CacheRepos, CacheRequests, Tasks, "idle")
    /\ ghcfg = "configured"
    /\ oxstate = <<>>
    /\ ctx = NoContext

NextCache ==
    \/ \E t \in Tasks : EnsureAllowedGitHub(t)
    \/ \E t \in Tasks : GvLock(t)
    \/ \E t \in Tasks : GvCheck(t)
    \/ \E t \in Tasks : GvRespond(t)
    \/ \E t \in Tasks : GvInsert(t)
    \/ Tick

SpecCache == InitCache /\ [][NextCache]_vars

\* the github_visibility calls of the history, by the index of their entry
VisCalls == {i \in 1..Len(hist) : hist[i].e = "vis_call"}

\* the first entry after i of the task of entry i that is of one of the kinds, or 0
NextOf(i, kinds) ==
    LET later == {k \in (i + 1)..Len(hist) : hist[k].t = hist[i].t /\ hist[k].e \in kinds}
    IN  IF later = {} THEN 0 ELSE CHOOSE k \in later : \A m \in later : k <= m

\* where call i returned (0 while it runs), and where it read the clock for its check
RetOf(i) == NextOf(i, {"vis_ret"})

CheckOf(i) == NextOf(i, {"vis_ret", "http"})

\* the upstream calls that call i issued
FetchesOf(i) ==
    Cardinality({k \in (i + 1)..Len(hist) :
                    /\ hist[k].e = "http"
                    /\ hist[k].t = hist[i].t
                    /\ RetOf(i) = 0 \/ k < RetOf(i)})

\* call j is the next call for the repository of call i, entered after i returned
\* with a value, its check less than one hour after the check of i
ConsecutiveWithinTTL(i, j) ==
    /\ hist[i].a = hist[j].a
    /\ RetOf(i) # 0
    /\ RetOf(j) # 0
    /\ hist[RetOf(i)].b # "error"
    /\ RetOf(i) < j
    /\ \A k \in VisCalls : (i < k /\ k < j) => hist[k].a # hist[i].a
    /\ hist[CheckOf(j)].at - hist[CheckOf(i)].at < TTL

\* C9 as claimed: two consecutive visibility(r) calls less than an hour apart,
\* the first successful, issue at most one upstream call and the second
\* returns the value the first returned.
C9_Claimed ==
    \A i \in VisCalls, j \in VisCalls :
        ConsecutiveWithinTTL(i, j) =>
            /\ FetchesOf(i) + FetchesOf(j) <= 1
            /\ hist[RetOf(j)].b = hist[RetOf(i)].b

\* no other call returned a value for the repository between the return of i
\* and the return of j
NoReturnBetween(i, j) ==
    \A k \in (RetOf(i) + 1)..(RetOf(j) - 1) :
        ~(hist[k].e = "vis_ret" /\ hist[k].a = hist[i].a /\ hist[k].b # "error")

\* C9 amended: two such calls issue at most one upstream call; when the first
\* fetched its value upstream and no other call for r returned in between, the
\* second is answered from the cache with the value the first returned.
C9_CacheIdempotence ==
    \A i \in VisCalls, j \in VisCalls :
        ConsecutiveWithinTTL(i, j) =>
            /\ FetchesOf(i) + FetchesOf(j) <= 1
            /\ (FetchesOf(i) = 1 /\ NoReturnBetween(i, j)) =>
                  /\ FetchesOf(j) = 0
                  /\ hist[RetOf(j)].b = hist[RetOf(i)].b

\* a call that fetched, and the next one, of another task and later but within
\* the hour, that was answered from the cache
C9_Witness ==
    \E i \in VisCalls, j \in VisCalls :
        /\ ConsecutiveWithinTTL(i, j)
        /\ NoReturnBetween(i, j)
        /\ FetchesOf(i) = 1
        /\ FetchesOf(j) = 0
        /\ hist[i].t # hist[j].t
        /\ hist[CheckOf(j)].at > hist[CheckOf(i)].at

\* C10: no task holds the visibility-cache mutex while it is suspended on the
\* upstream call; a task holds it only during its check.
C10_LockNotHeldAcrossAwait ==
    \A t \in Tasks :
        /\ pc[t] \in {"gv_await", "gv_insert"} => lock # t
        /\ lock = t => pc[t] = "gv_check"

\* one task is suspended on the upstream call while another holds the mutex
C10_Witness ==
    \E t \in Tasks, u \in Tasks :
        /\ pc[t] = "gv_await"
        /\ lock = u
        /\ u # t

\* the calls that went upstream and got an error
FailedCalls == {i \in VisCalls : RetOf(i) # 0 /\ hist[RetOf(i)].b = "error"}

\* call j is the next call for the repository of the failed call i: it checks
\* the cache after i returned, and no other call for the repository checks
\* in between
FollowsFailure(i, j) ==
    /\ hist[i].a = hist[j].a
    /\ CheckOf(j) # 0
    /\ RetOf(i) < CheckOf(j)
    /\ \A k \in VisCalls :
          (k # j /\ hist[k].a = hist[i].a /\ CheckOf(k) # 0)
             => ~(RetOf(i) < CheckOf(k) /\ CheckOf(k) < CheckOf(j))

\* call j went upstream
WentUpstream(j) == hist[CheckOf(j)].e = "http"

\* the step in which a lookup returns GetVisibility leaves every entry of the
\* cache as it was
FailureLeavesCache ==
    (\E t \in Tasks :
        /\ pc[t] = "gv_await"
        /\ result'[t] = Some(Err("GetVisibility", CurrentRepo(t))))
      => cache' = cache

\* C11 as claimed: a failed upstream lookup for r returns GetVisibility(r) and
\* leaves the cache as it was, and the next call for r goes upstream again.
C11_Claimed ==
    \A i \in FailedCalls, j \in VisCalls :
        FollowsFailure(i, j) => WentUpstream(j)

\* no call for the repository of i returned a visibility between the check of
\* i and position k of the history
NoValueSince(i, k) ==
    \A m \in (CheckOf(i) + 1)..(k - 1) :
        ~(hist[m].e = "vis_ret" /\ hist[m].a = hist[i].a /\ hist[m].b # "error")

\* the next call for r after a failed one goes upstream, unless another call
\* for r returned a visibility while or after the failed one ran
NextGoesUpstream ==
    \A i \in FailedCalls, j \in VisCalls :
        (FollowsFailure(i, j) /\ NoValueSince(i, CheckOf(j))) => WentUpstream(j)

\* a failed lookup ends the request with GetVisibility(r)
FailureReturned ==
    \A i \in FailedCalls :
        /\ result[hist[i].t] = Some(Err("GetVisibility", hist[i].a))
        /\ hist[RetOf(i) + 1] = Event("ea_ret", hist[i].t, "GetVisibility", "")

\* C11 amended: a failed upstream lookup for r returns GetVisibility(r), the
\* failing call inserts, replaces and removes no entry of the cache, and the
\* next call for r goes upstream again unless a concurrent call for r stored
\* a visibility in the meantime.
C11_FailureNotCached ==
    /\ [][FailureLeavesCache]_vars
    /\ [](FailureReturned /\ NextGoesUpstream)

\* a lookup failed while the cache held an entry for its repository, and the
\* next call for the repository, of another task, went upstream
C11_Witness ==
    \E i \in FailedCalls, j \in VisCalls :
        /\ FollowsFailure(i, j)
        /\ NoValueSince(i, CheckOf(j))
        /\ WentUpstream(j)
        /\ hist[i].t # hist[j].t
        /\ cache[hist[i].a] # None

\* the entry of repository r is live now: it exists and has not expired
LiveEntry(r) == cache[r] # None /\ cache[r][1].expires_at >= clock

\* the check of a call answers from the cache when the entry is live, and with
\* no upstream call; else it goes upstream; it leaves the cache as it is
CheckDecides ==
    \A t \in Tasks :
        (pc[t] = "gv_check" /\ pc'[t] # "gv_check") =>
            LET r == CurrentRepo(t)
                next == hist'[Len(hist) + 1]
            IN  /\ cache' = cache
                /\ LiveEntry(r) =>
                      /\ pc'[t] # "gv_await"
                      /\ next = EventAt("vis_ret", t, r, cache[r][1].visibility)
                      /\ \A k \in (Len(hist) + 1)..Len(hist') : hist'[k].e # "http"
                /\ ~LiveEntry(r) =>
                      /\ pc'[t] = "gv_await"
                      /\ next = EventAt("http", t, "visibility", r)
                      /\ Len(hist') = Len(hist) + 1

\* the cache changes only by the insert of a fetched value, which replaces the
\* entry of the repository by the value with expires_at one hour from now
InsertStamps ==
    \A r \in DOMAIN cache :
        cache'[r] # cache[r] =>
            \E t \in Tasks :
                /\ pc[t] = "gv_insert"
                /\ CurrentRepo(t) = r
                /\ cache'[r] = Some([visibility |-> vis[t], expires_at |-> clock + TTL])
                /\ hist'[Len(hist) + 1] = EventAt("vis_ret", t, r, vis[t])

\* the calls that were answered from the cache
CachedCalls == {i \in VisCalls : RetOf(i) # 0 /\ FetchesOf(i) = 0}

\* the returns of the calls that fetched a value upstream and inserted it
Inserts ==
    {RetOf(i) : i \in {j \in VisCalls :
                          RetOf(j) # 0 /\ FetchesOf(j) = 1 /\ hist[RetOf(j)].b # "error"}}

\* a value answered from the cache was inserted, for that repository, at most
\* one hour before
ReturnedWithinHour ==
    \A i \in CachedCalls :
        \E m \in Inserts :
            /\ m < RetOf(i)
            /\ hist[m].a = hist[i].a
            /\ hist[m].b = hist[RetOf(i)].b
            /\ hist[RetOf(i)].at - hist[m].at <= TTL

\* every entry of the cache expires at most one hour from now
NoEntryBeyondHour ==
    \A r \in DOMAIN cache : cache[r] # None => cache[r][1].expires_at <= clock + TTL

\* C31: visibility(r) answers from the cache, with no upstream call, iff an
\* entry for r exists with expires_at >= now (boundary inclusive); every
\* inserted entry has expires_at equal to its insertion time plus 1 hour, so a
\* cached value is never returned more than 1 hour after it was inserted, and
\* an expired entry forces an upstream fetch whose result replaces it.
C31_CacheExpiry ==
    /\ [][CheckDecides /\ InsertStamps]_vars
    /\ [](ReturnedWithinHour /\ NoEntryBeyondHour)

\* a call was answered from the cache exactly one hour after the insert, and a
\* later call found the entry expired, fetched, and replaced it
C31_Witness ==
    \E i \in CachedCalls, m \in Inserts, n \in Inserts :
        /\ m < RetOf(i)
        /\ hist[RetOf(i)].at - hist[m].at = TTL
        /\ RetOf(i) < n
        /\ hist[n].at > hist[m].at + TTL
        /\ cache[hist[i].a] = Some([visibility |-> hist[n].b, expires_at |-> hist[n].at + TTL])

\* the answers of the upstream fetches for repository r, by their index
Fetched(r) == {k \in 1..Len(hist) : hist[k].e = "fetched" /\ hist[k].a = r}

\* the inserts for repository r, by the index of the return that follows them
InsertsFor(r) == {m \in Inserts : hist[m].a = r}

\* the greatest index of a non-empty set of indices
Latest(S) == CHOOSE k \in S : \A m \in S : m <= k

\* no call of github_visibility is running
AllReturned == \A t \in Tasks : pc[t] \notin {"gv_lock", "gv_check", "gv_await", "gv_insert"}

\* every call that returned a visibility returned one that an upstream fetch
\* for its repository had answered before: its own fetch if it made one, the
\* fetch of the latest insert if it was answered from the cache
ReturnsFetched ==
    \A i \in VisCalls :
        (RetOf(i) # 0 /\ hist[RetOf(i)].b # "error") =>
            LET r == hist[i].a
                own == {k \in Fetched(r) : hist[k].t = hist[i].t /\ i < k /\ k < RetOf(i)}
                before == {m \in InsertsFor(r) : m < RetOf(i)}
            IN  IF own # {}
                THEN hist[RetOf(i)].b = hist[Latest(own)].b
                ELSE /\ before # {}
                     /\ hist[RetOf(i)].b = hist[Latest(before)].b
                     /\ \E k \in Fetched(r) : k < RetOf(i) /\ hist[k].b = hist[RetOf(i)].b

\* the entry of a repository holds the value of the insert that came last
HoldsLastInsert ==
    \A r \in DOMAIN cache :
        IF InsertsFor(r) = {}
        THEN cache[r] = None
        ELSE /\ cache[r] # None
             /\ cache[r][1].visibility = hist[Latest(InsertsFor(r))].b

\* C34 as claimed: when several calls for r overlap, each returns a value that
\* an upstream call returned for r, and once all of them have completed the
\* cache holds for r the value of the upstream fetch that was answered last.
C34_Claimed ==
    /\ ReturnsFetched
    /\ AllReturned =>
          \A r \in DOMAIN cache :
              Fetched(r) # {} =>
                  /\ cache[r] # None
                  /\ cache[r][1].visibility = hist[Latest(Fetched(r))].b

\* C34 amended: when several calls for r overlap, each returns a value that an
\* upstream call returned for r, and the cache holds for r the value of the
\* fetch whose insert came last, which need not be the fetch answered last:
\* the inserts can happen in another order than the answers.
C34_LastInsertWins == ReturnsFetched /\ HoldsLastInsert

\* two calls for one repository overlapped, both went upstream, the first
\* answer said private and the second public, and the calls inserted in the
\* order of the answers: the cache holds public
C34_Witness ==
    /\ AllReturned
    /\ \E r \in DOMAIN cache :
          \E j \in Fetched(r), k \in Fetched(r), m \in InsertsFor(r), n \in InsertsFor(r) :
              /\ j < k
              /\ k < m
              /\ m < n
              /\ hist[j].t = hist[m].t
              /\ hist[k].t = hist[n].t
              /\ hist[j].t # hist[k].t
              /\ hist[j].b = "private"
              /\ hist[k].b = "public"
              /\ cache[r][1].visibility = "public"

\* the same two calls inserted against the order of the answers: the cache
\* holds private, the value answered first
C34_WitnessOverwritten ==
    /\ AllReturned
    /\ \E r \in DOMAIN cache :
          \E j \in Fetched(r), k \in Fetched(r), m \in InsertsFor(r), n \in InsertsFor(r) :
              /\ j < k
              /\ k < m
              /\ m < n
              /\ hist[j].t = hist[n].t
              /\ hist[k].t = hist[m].t
              /\ hist[j].t # hist[k].t
              /\ hist[j].b = "private"
              /\ hist[k].b = "public"
              /\ Latest(InsertsFor(r)) = n
              /\ cache[r][1].visibility = "private"

(***************************************************************************)
(* SpecGitHub: one call of GitHubTokens::get, with or without credentials, *)
(* for requests over well-formed and malformed repositories and            *)
(* permissions.                                                            *)
(***************************************************************************)

MinterRepos == {RepoAX, RepoAY, RepoBY, RepoJunk, RepoDeep}

MinterPermissions == {PermCR, PermIW, PermCW, PermJunk, PermSlash}

MinterRequests(t) ==
    [service : {"github"}, repositories : Lists(MinterRepos),
     permissions : Lists(MinterPermissions)]

InitGitHub ==
    /\ IdleMatcher
    /\ IdleVerify
    /\ InitTasks({}, MinterRequests, {1}, "gh_start")
    /\ ghcfg \in {"unconfigured", "unsignable", "configured"}
    /\ oxstate = <<>>
    /\ ctx = NoContext

NextGitHub ==
    \/ \E t \in Tasks : GetValidate(t)
    \/ \E t \in Tasks : GetInstallation(t)
    \/ \E t \in Tasks : GetPost(t)

SpecGitHub == InitGitHub /\ [][NextGitHub]_vars

\* where a repository string has its slashes, whether it is "owner/name", and
\* its owner: what precedes the first slash
SlashesOf(repo) == {k \in 1..Len(repo) : repo[k] = "/"}

WellFormedRepo(repo) == Cardinality(SlashesOf(repo)) = 1

OwnerOf(repo) == SubSeq(repo, 1, (CHOOSE k \in SlashesOf(repo) : \A m \in SlashesOf(repo) : k <= m) - 1)

\* the repositories of a request span two owners
SpansTwoOwners(r) ==
    \E i, j \in 1..Len(r.repositories) :
        /\ SlashesOf(r.repositories[i]) # {}
        /\ SlashesOf(r.repositories[j]) # {}
        /\ OwnerOf(r.repositories[i]) # OwnerOf(r.repositories[j])

\* the outbound calls of the minter that a task issued
MinterCalls(t) ==
    {k \in 1..Len(hist) : hist[k].e = "http" /\ hist[k].t = t
                          /\ hist[k].a \in {"orgs", "users", "access_tokens"}}

\* C7 as claimed: for any request whose repositories span two owners, get
\* returns DifferentOrgs, before any outbound HTTP call has been issued.
C7_Claimed ==
    \A t \in Tasks :
        (pc[t] # "off" /\ SpansTwoOwners(req[t])) =>
            /\ MinterCalls(t) = {}
            /\ mres[t] # None => mres[t][1] = Err("DifferentOrgs", "")

\* the first repository that is not "owner/name", and the first well-formed one
\* whose owner differs from that of an earlier well-formed one (0 when none)
FirstOf(S) == IF S = {} THEN 0 ELSE CHOOSE k \in S : \A m \in S : k <= m

FirstMalformed(repos) == FirstOf({k \in 1..Len(repos) : ~WellFormedRepo(repos[k])})

FirstForeign(repos) ==
    FirstOf({k \in 1..Len(repos) :
                /\ WellFormedRepo(repos[k])
                /\ \E m \in 1..(k - 1) : /\ WellFormedRepo(repos[m])
                                         /\ OwnerOf(repos[m]) # OwnerOf(repos[k])})

\* C7 amended: for any request whose repositories span two owners, get returns
\* an error before any outbound HTTP call has been issued: NoCredentials without
\* credentials, EncodeJwt when the app JWT cannot be signed, and else
\* NotAGitHubRepository for a malformed repository that precedes the first
\* repository of a second owner, DifferentOrgs when there is none.
C7_DifferentOrgsBeforeCalls ==
    \A t \in Tasks :
        (pc[t] # "off" /\ SpansTwoOwners(req[t])) =>
            /\ MinterCalls(t) = {}
            /\ pc[t] \in {"gh_start", "gh_done"}
            /\ mres[t] # None =>
                 LET repos == req[t].repositories
                     bad == FirstMalformed(repos)
                     foreign == FirstForeign(repos)
                 IN  mres[t][1] =
                        IF ghcfg = "unconfigured" THEN Err("NoCredentials", "")
                        ELSE IF ghcfg = "unsignable" THEN Err("EncodeJwt", "")
                        ELSE IF bad # 0 /\ (foreign = 0 \/ bad < foreign)
                        THEN Err("NotAGitHubRepository", repos[bad])
                        ELSE Err("DifferentOrgs", "")

\* get, with credentials, has returned DifferentOrgs for a/x and b/y
C7_Witness ==
    \E t \in Tasks :
        /\ ghcfg = "configured"
        /\ req[t].repositories = <<RepoAX, RepoBY>>
        /\ mres[t] = Some(Err("DifferentOrgs", ""))
        /\ MinterCalls(t) = {}

\* where in the history the lookup of the kind was answered for task t with
\* one of the answers
Answered(t, kind, answers) ==
    {k \in 1..Len(hist) :
        /\ hist[k].e = "http_ret"
        /\ hist[k].t = t
        /\ hist[k].a = kind
        /\ hist[k].b \in answers}

\* where task t sent a call of the name
Sent(t, name) == {k \in MinterCalls(t) : hist[k].a = name}

\* C19: installation discovery asks orgs/{owner}/installation first and
\* users/{owner}/installation second and stops at the first hit: when the orgs
\* lookup succeeds no users lookup is issued, and the token POST uses the id
\* the orgs lookup returned.
C19_FirstHitWins ==
    \A t \in Tasks :
        /\ \A k \in Sent(t, "users") : \E j \in Sent(t, "orgs") : j < k
        /\ Answered(t, "orgs", {"ok"}) # {} =>
              /\ Sent(t, "users") = {}
              /\ \A k \in Sent(t, "access_tokens") :
                    hist[k].b.installation = InstallationId("orgs")

\* C20: in installation discovery a 404 moves on to the next kind; any other
\* failure is returned at once, the remaining kind is not tried; when no
\* lookup yields an installation get returns AppNotInstalled(owner); in both
\* failure cases no installation-token POST is issued.
C20_DiscoveryFailures ==
    \A t \in Tasks :
        pc[t] # "off" =>
            /\ Answered(t, "orgs", {"not_found"}) # {} =>
                  (pc[t] = "gh_users" \/ Sent(t, "users") # {})
            /\ Answered(t, "orgs", {"GitHubError", "Http"}) # {} =>
                  /\ Sent(t, "users") = {}
                  /\ Sent(t, "access_tokens") = {}
                  /\ pc[t] = "gh_done"
                  /\ mres[t][1].err \in {"GitHubError", "Http"}
                  /\ Answered(t, "orgs", {mres[t][1].err}) # {}
            /\ Answered(t, "users", {"GitHubError", "Http"}) # {} =>
                  /\ Sent(t, "access_tokens") = {}
                  /\ pc[t] = "gh_done"
                  /\ mres[t][1].err \in {"GitHubError", "Http"}
                  /\ Answered(t, "users", {mres[t][1].err}) # {}
            /\ (Answered(t, "orgs", {"not_found"}) # {}
                  /\ Answered(t, "users", {"not_found"}) # {}) =>
                  /\ Sent(t, "access_tokens") = {}
                  /\ pc[t] = "gh_done"
                  /\ mres[t] = Some(Err("AppNotInstalled", mint[t][1].namespace))
                  /\ mint[t][1].namespace = OwnerOf(req[t].repositories[1])
            /\ (mres[t] # None /\ mres[t][1].err = "AppNotInstalled") =>
                  /\ Answered(t, "orgs", {"not_found"}) # {}
                  /\ Answered(t, "users", {"not_found"}) # {}
            /\ \A kind \in {"orgs", "users"} : Cardinality(Sent(t, kind)) <= 1

\* both lookups were answered 404 and get returned AppNotInstalled
C20_Witness ==
    \E t \in Tasks :
        /\ pc[t] = "gh_done"
        /\ Answered(t, "orgs", {"not_found"}) # {}
        /\ Answered(t, "users", {"not_found"}) # {}
        /\ mres[t] = Some(Err("AppNotInstalled", <<"a">>))
        /\ Sent(t, "access_tokens") = {}

\* a permission is "name:level" with no "/" in the name; its name
ColonsOf(perm) == {k \in 1..Len(perm) : perm[k] = ":"}

NameOf(perm) == SubSeq(perm, 1, FirstOf(ColonsOf(perm)) - 1)

WellFormedPerm(perm) ==
    /\ ColonsOf(perm) # {}
    /\ \A k \in 1..Len(NameOf(perm)) : NameOf(perm)[k] # "/"

\* the first permission that is malformed or names what an earlier one names
FirstBadPerm(perms) ==
    FirstOf({k \in 1..Len(perms) :
                \/ ~WellFormedPerm(perms[k])
                \/ \E m \in 1..(k - 1) : WellFormedPerm(perms[m])
                                         /\ NameOf(perms[m]) = NameOf(perms[k])})

\* the repositories and the permissions of a request are valid
InputsValid(r) ==
    /\ r.repositories # <<>>
    /\ FirstMalformed(r.repositories) = 0
    /\ FirstForeign(r.repositories) = 0
    /\ FirstBadPerm(r.permissions) = 0

\* the error for the first defect of the repositories and permissions of a
\* request, in the order get meets them; None for valid inputs
InputError(r) ==
    LET repos == r.repositories
        perms == r.permissions
        bad == FirstMalformed(repos)
        foreign == FirstForeign(repos)
        p == FirstBadPerm(perms)
    IN  IF bad # 0 /\ (foreign = 0 \/ bad < foreign)
        THEN Some(Err("NotAGitHubRepository", repos[bad]))
        ELSE IF foreign # 0 THEN Some(Err("DifferentOrgs", ""))
        ELSE IF repos = <<>> THEN Some(Err("NoRepositories", ""))
        ELSE IF p = 0 THEN None
        ELSE IF ~WellFormedPerm(perms[p]) THEN Some(Err("NotAPermission", perms[p]))
        ELSE Some(Err("DuplicatePermission", NameOf(perms[p])))

Response(status, body) == [status |-> status, body |-> body]

\* impl GitHubTokenError: safe_to_expose
safe_to_expose(err) ==
    err \notin {"ReadPrivateKey", "LoadPrivateKey", "EncodeJwt", "Http"}

\* #[error(..)] of GitHubTokenError: the text of an error
GitHubTokenErrorText(r) ==
    CASE r.err = "NoCredentials" ->
           <<"GitHub credentials are not configured for this instance of oidc-exchange">>
      [] r.err = "NotAGitHubRepository" ->
           <<"Repository name ", r.val, " is not in the `org/name` format">>
      [] r.err = "DifferentOrgs" ->
           <<"The repositories requested for this token belong to different organizations">>
      [] r.err = "NoRepositories" ->
           <<"The requested token asked for access to no repositories">>
      [] r.err = "DuplicatePermission" ->
           <<"The permission ", r.val, " is requested multiple times">>
      [] r.err = "NotAPermission" ->
           <<"The permission string ", r.val, " is not a valid permission">>
      [] r.err = "AppNotInstalled" ->
           <<"oidc-exchange's GitHub App is not installed on ", r.val>>
      [] r.err = "GitHubError" ->
           <<"Request to ", r.val.url, " failed with status ", r.val.status, ": ",
             r.val.message>>
      [] r.err = "Http" -> <<"HTTP error">>
      [] r.err = "EncodeJwt" -> <<"Failed to encode the JWT">>
      [] OTHER -> <<r.err>>

\* steps 1 to 3 of the handler: the token is decoded for its iss, the issuer
\* is looked up and the token verified; a failure is answered 400
PipelineVerify(t) ==
    /\ pc[t] = "x_start"
    /\ \E outcome \in {"Invalid token", "Unsupported issuer", "Token validation failed", "ok"} :
          IF outcome = "ok"
          THEN /\ pc' = [pc EXCEPT ![t] = "idle"]
               /\ hist' = Append(hist, Event("verified", t, "", ""))
               /\ UNCHANGED resp
          ELSE /\ pc' = [pc EXCEPT ![t] = "x_done"]
               /\ resp' = [resp EXCEPT ![t] = Some(Response(400, <<outcome>>))]
               /\ UNCHANGED hist
    /\ UNCHANGED <<matcherVars, verifyVars, policyVars, envVars, req, ri, pi, vis, result,
                   ghcfg, oxstate, ctx, mint, mres>>

\* step 4 has ended: a deny is answered 400 with the rendered fact, another
\* error of the policy 500; else the request goes to the minter
PipelinePolicy(t) ==
    /\ pc[t] = "ea_done"
    /\ LET r == result[t][1] IN
       IF r.ok
       THEN /\ pc' = [pc EXCEPT ![t] =
                          IF req[t].service = "oxide" THEN "ox_start" ELSE "gh_start"]
            /\ UNCHANGED resp
       ELSE /\ pc' = [pc EXCEPT ![t] = "x_done"]
            /\ resp' = [resp EXCEPT ![t] =
                          Some(IF r.err = "NotMatching"
                               THEN Response(400, <<"Token doesn't match the policy: ", r.val>>)
                               ELSE Response(500, <<"Internal Server Error">>))]
    /\ UNCHANGED <<matcherVars, verifyVars, policyVars, envVars, req, ri, pi, vis, result,
                   ghcfg, oxstate, ctx, mint, mres, hist>>

\* step 5 has ended: the token is answered 200, an error that is safe to expose
\* 400 with its text, another error 500
PipelineRespond(t) ==
    /\ pc[t] = "gh_done"
    /\ LET r == mres[t][1] IN
       resp' = [resp EXCEPT ![t] =
                  Some(IF r.ok THEN Response(200, <<"access_token", r.val>>)
                       ELSE IF safe_to_expose(r.err)
                       THEN Response(400, <<"Failed to generate token: ">>
                                            \o GitHubTokenErrorText(r))
                       ELSE Response(500, <<"Internal Server Error">>))]
    /\ pc' = [pc EXCEPT ![t] = "x_done"]
    /\ UNCHANGED <<matcherVars, verifyVars, policyVars, envVars, req, ri, pi, vis, result,
                   ghcfg, oxstate, ctx, mint, mres, hist>>

PipelineRepos == {RepoAX, RepoBY}

PipelineRequests(t) ==
    [service : {"github"}, repositories : Lists(PipelineRepos),
     permissions : {<<>>, <<PermCR>>, <<PermCR, PermIW>>}]

InitPipeline ==
    /\ IdleMatcher
    /\ IdleVerify
    /\ InitTasks(PipelineRepos, PipelineRequests, {1}, "x_start")
    /\ ghcfg \in {"unconfigured", "configured"}
    /\ oxstate = <<>>
    /\ ctx = NoContext

NextPipeline ==
    \/ \E t \in Tasks : PipelineVerify(t)
    \/ \E t \in Tasks : EnsureAllowedGitHub(t)
    \/ \E t \in Tasks : GvLock(t)
    \/ \E t \in Tasks : GvCheck(t)
    \/ \E t \in Tasks : GvRespond(t)
    \/ \E t \in Tasks : GvInsert(t)
    \/ \E t \in Tasks : EvalFact(t)
    \/ \E t \in Tasks : PipelinePolicy(t)
    \/ \E t \in Tasks : GetValidate(t)
    \/ \E t \in Tasks : GetInstallation(t)
    \/ \E t \in Tasks : GetPost(t)
    \/ \E t \in Tasks : PipelineRespond(t)
    \/ Tick

SpecPipeline == InitPipeline /\ [][NextPipeline]_vars

\* the calls to GitHub that a task issued: installation lookups, token requests
\* and repository-visibility lookups
GitHubCalls(t) == {k \in 1..Len(hist) : hist[k].e = "http" /\ hist[k].t = t}

\* the token of the task's exchange was verified
Verified(t) == \E k \in 1..Len(hist) : hist[k].e = "verified" /\ hist[k].t = t

\* C8: a GitHub exchange with a verified token whose repositories, all
\* well-formed, belong to different owners, on a minter with credentials, causes
\* no call to GitHub, the visibility lookups of the policy evaluation included,
\* and is answered 400 with "belong to different organizations".
C8_MultiOwnerNoUpstream ==
    \A t \in Tasks :
        ( /\ Verified(t)
          /\ ghcfg = "configured"
          /\ SpansTwoOwners(req[t])
          /\ \A k \in 1..Len(req[t].repositories) : WellFormedRepo(req[t].repositories[k]) )
        =>
          /\ GitHubCalls(t) = {}
          /\ resp[t] # None =>
               resp[t][1] =
                  Response(400, <<"Failed to generate token: ">>
                                   \o GitHubTokenErrorText(Err("DifferentOrgs", "")))

\* where the engine failed on a fact of task t
EngineErrors(t) ==
    {k \in 1..Len(hist) : hist[k].e = "eval" /\ hist[k].t = t /\ hist[k].b = "error"}

\* the task went on to the minter, or a token was returned or answered
Minted(t) ==
    \/ pc[t] \in {"gh_start", "gh_orgs", "gh_users", "gh_post", "gh_done"}
    \/ mint[t] # None
    \/ mres[t] # None
    \/ resp[t] # None /\ resp[t][1].status = 200

\* C32: a policy-engine error is never treated as allow nor as deny: when the
\* evaluation of a fact fails in the engine, the engine error is returned
\* (PolicyError::Oso, answered 500) and not Ok or NotMatching, the remaining
\* facts are not evaluated, and no token is minted.
C32_EngineErrorIsFatal ==
    \A t \in Tasks :
        /\ \A k \in EngineErrors(t) :
              /\ hist[k + 1] = Event("ea_ret", t, "Oso", "")
              /\ \A m \in (k + 2)..Len(hist) : hist[m].t # t
              /\ result[t] = Some(Err("Oso", ""))
              /\ ~Minted(t)
              /\ resp[t] # None => resp[t][1] = Response(500, <<"Internal Server Error">>)
        /\ (result[t] # None /\ result[t][1].err = "Oso") => EngineErrors(t) # {}

\* the engine failed on the second of four facts, after an allow: the other
\* repository was never looked up and the request was answered 500
C32_Witness ==
    \E t \in Tasks :
        /\ Len(req[t].repositories) = 2
        /\ Len(req[t].permissions) = 2
        /\ Len(EventsOf(t, "eval")) = 2
        /\ EventsOf(t, "eval")[1].b = "allow"
        /\ EngineErrors(t) # {}
        /\ Len(EventsOf(t, "vis_call")) = 1
        /\ resp[t] = Some(Response(500, <<"Internal Server Error">>))

\* where task t sent the token POST that GitHub answered with a token
MintedTokens(t) ==
    {k \in 1..(Len(hist) - 1) :
        /\ hist[k].e = "http"
        /\ hist[k].t = t
        /\ hist[k].a = "access_tokens"
        /\ hist[k + 1].e = "http_ret"
        /\ hist[k + 1].b = "ok"}

\* where the engine allowed a fact of task t before position k
AllowsBefore(t, k) ==
    {j \in 1..(k - 1) : hist[j].e = "eval" /\ hist[j].t = t /\ hist[j].b = "allow"}

\* every permission of the body of the POST at k was allowed for every
\* repository of the request
PostedWereAllowed(t, k) ==
    \A p \in hist[k].b.permissions :
        \A i \in 1..Len(req[t].repositories) :
            \E j \in AllowsBefore(t, k) :
                /\ hist[j].a.repository = req[t].repositories[i]
                /\ split_once(hist[j].a.permission, ":") = Some(<<p[1], p[2]>>)

\* the policy step returned Ok before every mint, and what was posted had
\* been allowed
MintOnlyAfterOk ==
    \A t \in Tasks :
        \A k \in MintedTokens(t) :
            /\ result[t] = Some(Ok(""))
            /\ PostedWereAllowed(t, k)
            /\ req[t].permissions # <<>> => AllowsBefore(t, k) # {}

\* C36: every GitHub installation token the broker mints was preceded, in the
\* same request, by at least one allow decision of the policy engine, and
\* every permission in the body of the token POST was allowed for every
\* requested repository, for all request shapes.
C36_AllowBeforeMint ==
    \A t \in Tasks :
        \A k \in MintedTokens(t) :
            /\ AllowsBefore(t, k) # {}
            /\ PostedWereAllowed(t, k)

\* a request with a repository and no permissions was answered with a token,
\* and the engine was never asked
C36_MintWithoutDecision ==
    \E t \in Tasks :
        /\ req[t].permissions = <<>>
        /\ req[t].repositories # <<>>
        /\ MintedTokens(t) # {}
        /\ EventsOf(t, "eval") = <<>>
        /\ resp[t] # None
        /\ resp[t][1].status = 200

(***************************************************************************)
(* endpoints.rs: exchange, the handler of POST /exchange.  It tries the    *)
(* token against every authorization of every provider, and on the first   *)
(* that validates and has an SDK client runs the device-authorization flow *)
(* of the Oxide API for it.                                                *)
(***************************************************************************)

Authorization(token, host, user, duration) ==
    [token |-> token, host |-> host, user |-> user, duration |-> duration]

\* ctx.providers: each provider's resolved config and its token_authorizations
ContextProviders ==
    << [config |-> Providers[1],
        token_authorizations |->
          << Authorization([NoClaims EXCEPT !["repository"] = Some("acme/app")],
                           "silo1", "ci", 3600),
             Authorization(NoClaims, "silo2", "ci", 0) >>],
       [config |-> Providers[2],
        token_authorizations |->
          << Authorization([NoClaims EXCEPT !["aud"] = Some(RequiredAudience)],
                           "silo1", "deploy", 0) >>] >>

\* ctx.sdk_store: the (host, user) pairs that have an SDK client
SdkStore == {<<"silo1", "ci">>, <<"silo1", "deploy">>}

\* the place in the two loops that follows (p, a): the next authorization of the
\* provider, else the first of the next provider that has one; <<0, 0>> at the end
RECURSIVE NextPlace(_, _)
NextPlace(p, a) ==
    IF p > Len(ContextProviders) THEN <<0, 0>>
    ELSE IF a < Len(ContextProviders[p].token_authorizations) THEN <<p, a + 1>>
    ELSE NextPlace(p + 1, 0)

\* a mutant: the failure is answered with a token all the same
IssuedAnyway(t) ==
    /\ resp' = [resp EXCEPT ![t] = Some(Response(200, <<"access_token", "oxide-token">>))]
    /\ pc' = [pc EXCEPT ![t] = "x_done"]

\* a call of the Oxide API fails, or its answer cannot be read or parsed: 500
FailedToIssue(t) ==
    /\ resp' = [resp EXCEPT ![t] = Some(Response(500, <<"Failed to issue token">>))]
    /\ pc' = [pc EXCEPT ![t] = "x_done"]

\* let token = body.into_inner().token; the loops are entered
ExchangeEnter(t) ==
    /\ pc[t] = "lx_start"
    /\ LET place == NextPlace(1, 0) IN
       IF place = <<0, 0>>
       THEN /\ resp' = [resp EXCEPT ![t] =
                          Some(Response(400, <<"Token is not authorized for any resources">>))]
            /\ pc' = [pc EXCEPT ![t] = "x_done"]
            /\ UNCHANGED <<ri, pi>>
       ELSE /\ ri' = [ri EXCEPT ![t] = place[1]]
            /\ pi' = [pi EXCEPT ![t] = place[2]]
            /\ pc' = [pc EXCEPT ![t] = "lx_loop"]
            /\ UNCHANGED resp
    /\ UNCHANGED <<matcherVars, verifyVars, policyVars, envVars, req, vis, result,
                   ghcfg, oxstate, ctx, mint, mres, hist>>

\* one round of the inner loop: provider.config.validate(&token, &authz.token);
\* on Ok with an SDK client device_auth_request is sent, else the next round,
\* and after the last round the answer is 400 NO_MATCH
ExchangeTry(t) ==
    /\ pc[t] = "lx_loop"
    /\ LET provider == ContextProviders[ri[t]]
           authz == provider.token_authorizations[pi[t]]
           place == NextPlace(ri[t], pi[t])
       IN  \E r \in ValidateOutcomes(provider.config, jwt[1], authz.token) :
              LET h == Append(hist, Event("validate", t, <<ri[t], pi[t]>>, r)) IN
              IF r.ok /\ <<authz.host, authz.user>> \in SdkStore
              THEN /\ hist' = Append(h, Event("http", t, "device_auth_request",
                                            [host |-> authz.host, user |-> authz.user,
                                             ttl_seconds |-> IF authz.duration = 0 THEN None
                                                             ELSE Some(authz.duration)]))
                   /\ pc' = [pc EXCEPT ![t] = "lx_auth"]
                   /\ UNCHANGED <<ri, pi, resp>>
              ELSE /\ hist' = h
                   /\ IF place = <<0, 0>>
                      THEN /\ resp' = [resp EXCEPT ![t] =
                                 Some(Response(400, <<"Token is not authorized for any resources">>))]
                           /\ pc' = [pc EXCEPT ![t] = "x_done"]
                           /\ UNCHANGED <<ri, pi>>
                      ELSE /\ ri' = [ri EXCEPT ![t] = place[1]]
                           /\ pi' = [pi EXCEPT ![t] = place[2]]
                           /\ UNCHANGED <<pc, resp>>
    /\ UNCHANGED <<matcherVars, verifyVars, policyVars, envVars, req, vis, result,
                   ghcfg, oxstate, ctx, mint, mres>>

\* device_auth_request is answered: an error or an unreadable body is 500,
\* else device_auth_confirm is sent with the user code
ExchangeDeviceAuth(t) ==
    /\ pc[t] = "lx_auth"
    /\ \/ /\ FailedToIssue(t)
          /\ hist' = Append(hist, Event("http_ret", t, "device_auth_request", "error"))
       \/ /\ hist' = Append(Append(hist, Event("http_ret", t, "device_auth_request", "ok")),
                            Event("http", t, "device_auth_confirm", "user_code"))
          /\ pc' = [pc EXCEPT ![t] = "lx_confirm"]
          /\ UNCHANGED resp
    /\ UNCHANGED <<matcherVars, verifyVars, policyVars, envVars, req, ri, pi, vis, result,
                   ghcfg, oxstate, ctx, mint, mres>>

\* device_auth_confirm is answered: an error is 500, else device_access_token
\* is sent with the device code
ExchangeConfirm(t) ==
    /\ pc[t] = "lx_confirm"
    /\ \/ /\ FailedToIssue(t)
          /\ hist' = Append(hist, Event("http_ret", t, "device_auth_confirm", "error"))
       \/ /\ hist' = Append(Append(hist, Event("http_ret", t, "device_auth_confirm", "ok")),
                            Event("http", t, "device_access_token", "device_code"))
          /\ pc' = [pc EXCEPT ![t] = "lx_token"]
          /\ UNCHANGED resp
    /\ UNCHANGED <<matcherVars, verifyVars, policyVars, envVars, req, ri, pi, vis, result,
                   ghcfg, oxstate, ctx, mint, mres>>

\* a mutant: the loops go on after a token was fetched
LoopGoesOn(t) == "lx_loop"

\* return Ok(HttpResponseOk(..)) leaves the handler from inside the loops
ReturnToken(t) == "x_done"

\* device_access_token is answered: an error or an unreadable body is 500, else
\* the access token is returned with its expiry
ExchangeAccessToken(t) ==
    /\ pc[t] = "lx_token"
    /\ \/ /\ FailedToIssue(t)
          /\ hist' = Append(hist, Event("http_ret", t, "device_access_token", "error"))
       \/ /\ resp' = [resp EXCEPT ![t] =
                        Some(Response(200, <<"access_token", "oxide-token">>))]
          /\ pc' = [pc EXCEPT ![t] = ReturnToken(t)]
          /\ hist' = Append(hist, Event("http_ret", t, "device_access_token", "ok"))
    /\ UNCHANGED <<matcherVars, verifyVars, policyVars, envVars, req, ri, pi, vis, result,
                   ghcfg, oxstate, ctx, mint, mres>>

\* an issuer that no provider of the context has
IssuerC == "https://c.test/oidc"

\* the tokens presented to the handler: tokens of the two issuers, and the
\* same tokens with the foreign issuer in iss
ExchangeTokens ==
    LET known == {tok \in Tokens :
                    \/ ~tok.wellformed
                    \/ /\ tok.kid \in {Some("k1"), Some("kx")}
                       /\ tok.alg = "RS256"
                       /\ tok.sig.alg = "RS256"
                       /\ tok.sig.key \in {"rsa-a1", "rsa-b1", "attacker"}}
    IN  known \cup {[tok EXCEPT !.iss = Some(IssuerC)] : tok \in {k \in known : k.wellformed}}

ExchangeRequests(t) == {[service |-> "exchange"]}

InitExchange ==
    /\ IdleMatcher
    /\ jwt \in {Some(tok) : tok \in ExchangeTokens}
    /\ vprov = None
    /\ vclaims = None
    /\ vres = None
    /\ InitTasks({}, ExchangeRequests, {1}, "lx_start")
    /\ ghcfg = "unconfigured"
    /\ oxstate = <<>>
    /\ ctx = NoContext

NextExchange ==
    \/ \E t \in Tasks : ExchangeEnter(t)
    \/ \E t \in Tasks : ExchangeTry(t)
    \/ \E t \in Tasks : ExchangeDeviceAuth(t)
    \/ \E t \in Tasks : ExchangeConfirm(t)
    \/ \E t \in Tasks : ExchangeAccessToken(t)

SpecExchange == InitExchange /\ [][NextExchange]_vars

\* the calls of the Oxide API in the history
MintCalls == {k \in 1..Len(hist) : hist[k].e = "http"}

\* every call of the Oxide API follows, in its request, a validate of the token
\* that returned Ok: signature and claims
VerifiedBeforeMint ==
    \A k \in MintCalls :
        \E j \in 1..(k - 1) :
            /\ hist[j].e = "validate"
            /\ hist[j].t = hist[k].t
            /\ hist[j].b.ok

\* every call of the Oxide API follows, in its request, an allow decision of
\* the policy for the fact of the request
AllowedBeforeMint ==
    \A k \in MintCalls :
        \E j \in 1..(k - 1) :
            /\ hist[j].e = "eval"
            /\ hist[j].t = hist[k].t
            /\ hist[j].b = "allow"

\* the issuers of the issuer records of the context
ConfiguredIssuers ==
    {ContextProviders[p].config.issuer : p \in 1..Len(ContextProviders)}

\* where the handler called a verifier on the token of task t
ValidateCalls(t) == {k \in 1..Len(hist) : hist[k].e = "validate" /\ hist[k].t = t}

\* C24: an exchange whose JWT carries an iss that is no key of the issuer
\* records is answered 400 "Unsupported issuer"; no verifier is invoked on the
\* token, no policy fact is evaluated and no upstream call is made.
C24_UnsupportedIssuer ==
    \A t \in Tasks :
        (pc[t] # "off" /\ jwt # None /\ jwt[1].wellformed /\ jwt[1].iss # None
           /\ jwt[1].iss[1] \notin ConfiguredIssuers) =>
            /\ ValidateCalls(t) = {}
            /\ \A k \in 1..Len(hist) : hist[k].t = t => hist[k].e \notin {"eval", "http"}
            /\ resp[t] # None => resp[t][1] = Response(400, <<"Unsupported issuer">>)

\* C2: in the exchange handler every upstream minter call of a request is
\* preceded, within the request, by a successful signature-and-claims
\* verification of the presented JWT and by an allow decision for every policy
\* fact of the request.
C2_MintAfterVerifyAndAllow == VerifiedBeforeMint /\ AllowedBeforeMint

(***************************************************************************)
(* token/oxide.rs: OxideTokens::get                                        *)
(***************************************************************************)

\* the largest duration a request asks for, in seconds
MaxDuration == 3

\* the silo hosts: the first two may be configured, requests may name any
Silos == {"s1", "s2", "s3"}

ConfiguredSilos == {"s1", "s2"}

\* State { clients, allow_tokens_without_expiry, max_duration }: the client of
\* a silo is built with_host_and_token(silo, token), so it talks to that host
OxideState(silos, allow, max) ==
    [clients |-> [s \in silos |-> [host |-> s]],
     allow_tokens_without_expiry |-> allow,
     max_duration |-> max]

OxideRequest(silo, duration) == [service |-> "oxide", silo |-> silo, duration |-> duration]

\* a mutant: a token without expiry is never refused
NoExpirationNeverRefused(request, state) == FALSE

\* request.duration <= 0 && !state.allow_tokens_without_expiry, on a u32
NoExpirationRefused(request, state) ==
    request.duration <= 0 /\ ~state.allow_tokens_without_expiry

\* a mutant: the bound is exclusive
AtLeastMaxDuration(request, state) == request.duration >= state.max_duration

\* request.duration > state.max_duration
OverMaxDuration(request, state) == request.duration > state.max_duration

\* a mutant: the first client of the map serves every silo
ClientsGetAny(clients, silo) ==
    IF DOMAIN clients = {} THEN None
    ELSE Some(clients[CHOOSE s \in DOMAIN clients : TRUE])

\* state.clients.get(&request.silo)
ClientsGet(clients, silo) ==
    IF silo \in DOMAIN clients THEN Some(clients[silo]) ELSE None

\* ttl_seconds of the device-auth request: None for a duration of 0
TtlSeconds(request) == IF request.duration = 0 THEN None ELSE Some(request.duration)

\* the DeviceAuthorizationResponse a silo answers with
DeviceResponse(host, t) ==
    [device_code |-> <<"device", host, t>>, user_code |-> <<"user", host, t>>]

\* a mutant: a failed call is sent again
SendAgain(t) == pc[t]

\* an error is returned with ?: get is over
ReturnError(t) == "ox_done"

\* get returns Err(e): nothing more is sent
OxFails(t, e, v) ==
    /\ mres' = [mres EXCEPT ![t] = Some(Err(e, v))]
    /\ pc' = [pc EXCEPT ![t] = ReturnError(t)]

\* a mutant: the silo is looked up before the duration is checked
SiloCheckedFirst(request, state) ==
    IF ClientsGet(state.clients, request.silo) = None
    THEN Some(<<"SiloNotConfigured", request.silo>>)
    ELSE IF NoExpirationRefused(request, state)
    THEN Some(<<"NoExpirationDisallowed", "">>)
    ELSE IF OverMaxDuration(request, state)
    THEN Some(<<"TooLongExpiration", state.max_duration>>)
    ELSE None

\* the checks of get on a configured minter, in the order of the code: each if
\* returns its error before the next check is made, the silo lookup comes last
FirstFailure(request, state) ==
    IF NoExpirationRefused(request, state)
    THEN Some(<<"NoExpirationDisallowed", "">>)
    ELSE IF OverMaxDuration(request, state)
    THEN Some(<<"TooLongExpiration", state.max_duration>>)
    ELSE IF ClientsGet(state.clients, request.silo) = None
    THEN Some(<<"SiloNotConfigured", request.silo>>)
    ELSE None

\* get up to its first await: the configuration, the duration and the silo
OxValidate(t) ==
    /\ pc[t] = "ox_start"
    /\ IF oxstate = None
       THEN OxFails(t, "NotConfigured", "") /\ UNCHANGED mint
       ELSE LET state == oxstate[1]
                client == ClientsGet(state.clients, req[t].silo)
                failure == FirstFailure(req[t], state)
            IN  IF failure # None
                THEN OxFails(t, failure[1][1], failure[1][2]) /\ UNCHANGED mint
                ELSE /\ mint' = [mint EXCEPT ![t] =
                                    Some([client |-> client[1], device_response |-> None])]
                     /\ pc' = [pc EXCEPT ![t] = "ox_request"]
                     /\ UNCHANGED mres
    /\ UNCHANGED <<matcherVars, verifyVars, policyVars, envVars, req, ri, pi, vis, result,
                   ghcfg, oxstate, ctx, resp, hist>>

\* the access token a silo grants for a device code
TokenFor(device_code) == <<"token", device_code[2], device_code[3]>>

\* a mutant: the device-auth response is kept where every request sees it, and
\* the latest one is used
DeviceResponseShared(t) ==
    LET got == {k \in 1..Len(hist) :
                  /\ hist[k].e = "http_ret"
                  /\ hist[k].a = "device_auth_request"
                  /\ hist[k].b = "ok"}
        last == CHOOSE k \in got : \A j \in got : j <= k
    IN  DeviceResponse(hist[last - 1].b.host, hist[last].t)

\* device_response: the local of get that holds the parsed device-auth response
DeviceResponseOf(t) == mint[t][1].device_response[1]

\* a mutant: the token is fetched right after the device-auth request
FetchUnconfirmed(t) == "ox_token"

\* the statement after the parsed device-auth response is the confirm
ConfirmNext(t) == "ox_confirm"

\* client.device_auth_request().send() is sent and answered: a response whose
\* body parses or not, an error response whose body parses or not, or another
\* error of the client
OxDeviceAuthRequest(t) ==
    /\ pc[t] = "ox_request"
    /\ LET m == mint[t][1] IN
       \E answer \in {"ok", "ok_unparseable", "error_response",
                      "error_response_unparseable", "error"} :
          /\ hist' = Append(Append(hist, Event("http", t, "device_auth_request",
                                               [host |-> m.client.host,
                                                ttl_seconds |-> TtlSeconds(req[t])])),
                            Event("http_ret", t, "device_auth_request", answer))
          /\ CASE answer = "ok" ->
                    /\ mint' = [mint EXCEPT ![t] =
                                   Some([m EXCEPT !.device_response =
                                            Some(DeviceResponse(m.client.host, t))])]
                    /\ pc' = [pc EXCEPT ![t] = ConfirmNext(t)]
                    /\ UNCHANGED mres
               [] answer = "error_response" ->
                    OxFails(t, "DeviceAuthRequest", "") /\ UNCHANGED mint
               [] answer = "error" ->
                    OxFails(t, "OxideByteError", "") /\ UNCHANGED mint
               [] OTHER ->
                    OxFails(t, "ByteStream", "") /\ UNCHANGED mint
    /\ UNCHANGED <<matcherVars, verifyVars, policyVars, envVars, req, ri, pi, vis, result,
                   ghcfg, oxstate, ctx, resp>>

\* client.device_auth_confirm().send() is sent and answered
OxDeviceAuthConfirm(t) ==
    /\ pc[t] = "ox_confirm"
    /\ LET m == mint[t][1] IN
       \E answer \in {"ok", "error"} :
          /\ hist' = Append(Append(hist, Event("http", t, "device_auth_confirm",
                                               [host |-> m.client.host,
                                                user_code |-> DeviceResponseOf(t).user_code])),
                            Event("http_ret", t, "device_auth_confirm", answer))
          /\ IF answer = "ok"
             THEN pc' = [pc EXCEPT ![t] = "ox_token"] /\ UNCHANGED mres
             ELSE OxFails(t, "Oxide", "")
    /\ UNCHANGED <<matcherVars, verifyVars, policyVars, envVars, req, ri, pi, vis, result,
                   ghcfg, oxstate, ctx, mint, resp>>

\* client.device_access_token().send() is sent and answered, and the grant is
\* parsed: Ok(Token { access_token })
OxDeviceAccessToken(t) ==
    /\ pc[t] = "ox_token"
    /\ LET m == mint[t][1] IN
       \E answer \in {"ok", "ok_unparseable", "error"} :
          /\ hist' = Append(Append(hist, Event("http", t, "device_access_token",
                                               [host |-> m.client.host,
                                                device_code |-> DeviceResponseOf(t).device_code])),
                            Event("http_ret", t, "device_access_token", answer))
          /\ CASE answer = "ok" ->
                    /\ mres' = [mres EXCEPT ![t] =
                                   Some(Ok(TokenFor(DeviceResponseOf(t).device_code)))]
                    /\ pc' = [pc EXCEPT ![t] = "ox_done"]
               [] answer = "error" -> OxFails(t, "OxideByteError", "")
               [] OTHER -> OxFails(t, "ByteStream", "")
    /\ UNCHANGED <<matcherVars, verifyVars, policyVars, envVars, req, ri, pi, vis, result,
                   ghcfg, oxstate, ctx, mint, resp>>

(***************************************************************************)
(* SpecOxide: one call of OxideTokens::get, with and without settings, for *)
(* requests of every silo and every duration up to MaxDuration.            *)
(***************************************************************************)

OxideRequests(t) == [service : {"oxide"}, silo : Silos, duration : 0..MaxDuration]

\* OxideTokens::new: no state without settings.oxide, else a client per silo
OxideStates ==
    {None} \cup
    {Some(OxideState(silos, allow, max)) :
        silos \in SUBSET ConfiguredSilos, allow \in BOOLEAN, max \in 0..(MaxDuration - 1)}

InitOxide ==
    /\ IdleMatcher
    /\ IdleVerify
    /\ InitTasks({}, OxideRequests, {1}, "ox_start")
    /\ ghcfg = "unconfigured"
    /\ oxstate \in OxideStates
    /\ ctx = NoContext

NextOxide ==
    \/ \E t \in Tasks : OxValidate(t)
    \/ \E t \in Tasks : OxDeviceAuthRequest(t)
    \/ \E t \in Tasks : OxDeviceAuthConfirm(t)
    \/ \E t \in Tasks : OxDeviceAccessToken(t)

SpecOxide == InitOxide /\ [][NextOxide]_vars

\* the upstream calls get has sent for task t, in order
OxideCalls(t) == SelectSeq(hist, LAMBDA ev : ev.e = "http" /\ ev.t = t)

\* get of task t has returned
OxideReturned(t) == pc[t] = "ox_done" /\ mres[t] # None

\* get of task t has passed its checks and gone on to the device flow
OxideAccepted(t) == pc[t] \in {"ox_request", "ox_confirm", "ox_token"} \/ OxideCalls(t) # <<>>

\* what get of task t returned is the error e with the value v
OxideRejected(t, e, v) ==
    /\ OxideReturned(t)
    /\ mres[t] = Some(Err(e, v))
    /\ OxideCalls(t) = <<>>

\* C12: with the minter configured, a request with duration == 0 goes on to
\* the device flow only when allow_tokens_without_expiry is set; when it is
\* not set, get returns NoExpirationDisallowed and no upstream call is issued;
\* no other request is answered NoExpirationDisallowed.
C12_NoExpiration ==
    \A t \in Tasks :
        (oxstate # None /\ req[t].service = "oxide") =>
            LET allow == oxstate[1].allow_tokens_without_expiry IN
            /\ (req[t].duration = 0 /\ ~allow) =>
                  /\ ~OxideAccepted(t)
                  /\ OxideReturned(t) => OxideRejected(t, "NoExpirationDisallowed", "")
            /\ (OxideReturned(t) /\ mres[t][1].err = "NoExpirationDisallowed") =>
                  (req[t].duration = 0 /\ ~allow)

\* a request without expiry was refused, and no call was sent
C12_Witness ==
    \E t \in Tasks :
        /\ oxstate # None
        /\ req[t].service = "oxide"
        /\ ~oxstate[1].allow_tokens_without_expiry
        /\ req[t].duration = 0
        /\ req[t].silo \in DOMAIN oxstate[1].clients
        /\ OxideRejected(t, "NoExpirationDisallowed", "")

\* C13: with the minter configured, a request with duration > max_duration is
\* rejected with TooLongExpiration(max_duration) and no upstream call, and no
\* request with duration <= max_duration is rejected with it.
C13_TooLongExpiration ==
    \A t \in Tasks :
        (oxstate # None /\ req[t].service = "oxide") =>
            LET max == oxstate[1].max_duration IN
            /\ req[t].duration > max =>
                  /\ ~OxideAccepted(t)
                  /\ OxideReturned(t) => OxideRejected(t, "TooLongExpiration", max)
            /\ (OxideReturned(t) /\ req[t].duration <= max) =>
                  mres[t][1].err # "TooLongExpiration"

\* a request one second over the bound was refused
C13_Witness ==
    \E t \in Tasks :
        /\ oxstate # None
        /\ req[t].service = "oxide"
        /\ req[t].duration = oxstate[1].max_duration + 1
        /\ req[t].silo \in DOMAIN oxstate[1].clients
        /\ OxideRejected(t, "TooLongExpiration", oxstate[1].max_duration)

\* the request of task t names a silo that has no client
UnknownSilo(t) ==
    /\ oxstate # None
    /\ req[t].service = "oxide"
    /\ req[t].silo \notin DOMAIN oxstate[1].clients

\* every call of task t went to the silo its request names
OwnSiloOnly(t) ==
    \A k \in 1..Len(OxideCalls(t)) : OxideCalls(t)[k].b.host = req[t].silo

\* C14 as claimed: a request naming a silo that is no key of the client map is
\* rejected with SiloNotConfigured(silo) and no call is sent; no request uses
\* the client of another silo.
C14_Claimed ==
    \A t \in Tasks :
        /\ (UnknownSilo(t) /\ OxideReturned(t)) =>
              OxideRejected(t, "SiloNotConfigured", req[t].silo)
        /\ OwnSiloOnly(t)

\* C14 amended: such a request is rejected without any call: with the duration
\* error when its duration fails a duration check, with SiloNotConfigured(silo)
\* otherwise; no request uses the client of a silo other than the one it names.
C14_SiloNotConfigured ==
    \A t \in Tasks :
        /\ UnknownSilo(t) =>
              /\ ~OxideAccepted(t)
              /\ OxideReturned(t) =>
                    IF NoExpirationRefused(req[t], oxstate[1])
                    THEN OxideRejected(t, "NoExpirationDisallowed", "")
                    ELSE IF OverMaxDuration(req[t], oxstate[1])
                    THEN OxideRejected(t, "TooLongExpiration", oxstate[1].max_duration)
                    ELSE OxideRejected(t, "SiloNotConfigured", req[t].silo)
        /\ (req[t].service = "oxide" /\ OxideReturned(t)
              /\ mres[t][1].err = "SiloNotConfigured") => UnknownSilo(t)
        /\ OwnSiloOnly(t)

\* other silos have clients, the one the request names has none, and the
\* request was refused for it
C14_Witness ==
    \E t \in Tasks :
        /\ UnknownSilo(t)
        /\ DOMAIN oxstate[1].clients # {}
        /\ OxideRejected(t, "SiloNotConfigured", req[t].silo)

\* the checks the request of task t fails, whatever their order
FailsNoExpiration(t) == req[t].duration = 0 /\ ~oxstate[1].allow_tokens_without_expiry

FailsTooLong(t) == req[t].duration > oxstate[1].max_duration

FailsSilo(t) == req[t].silo \notin DOMAIN oxstate[1].clients

\* C35: get reports the first failing check in a fixed order, all before any
\* upstream call: NotConfigured, then NoExpirationDisallowed, then
\* TooLongExpiration, then SiloNotConfigured; a request that names an unknown
\* silo and has a forbidden duration is answered with the duration error, and
\* a request goes on to the device flow only when no check fails.
C35_CheckOrder ==
    \A t \in Tasks :
        req[t].service = "oxide" =>
            /\ OxideReturned(t) =>
                  IF oxstate = None THEN OxideRejected(t, "NotConfigured", "")
                  ELSE IF FailsNoExpiration(t)
                  THEN OxideRejected(t, "NoExpirationDisallowed", "")
                  ELSE IF FailsTooLong(t)
                  THEN OxideRejected(t, "TooLongExpiration", oxstate[1].max_duration)
                  ELSE IF FailsSilo(t)
                  THEN OxideRejected(t, "SiloNotConfigured", req[t].silo)
                  ELSE /\ OxideCalls(t) # <<>>
                       /\ ~mres[t][1].ok =>
                             mres[t][1].err \notin {"NotConfigured", "NoExpirationDisallowed",
                                                    "TooLongExpiration", "SiloNotConfigured"}
            /\ OxideAccepted(t) =>
                  /\ oxstate # None
                  /\ ~FailsNoExpiration(t)
                  /\ ~FailsTooLong(t)
                  /\ ~FailsSilo(t)

\* a request over the bound that names an unknown silo was answered with
\* TooLongExpiration
C35_Witness ==
    \E t \in Tasks :
        /\ UnknownSilo(t)
        /\ FailsTooLong(t)
        /\ OxideRejected(t, "TooLongExpiration", oxstate[1].max_duration)

\* a request without expiry that names an unknown silo was answered with
\* NoExpirationDisallowed
C35_WitnessNoExpiration ==
    \E t \in Tasks :
        /\ UnknownSilo(t)
        /\ FailsNoExpiration(t)
        /\ OxideRejected(t, "NoExpirationDisallowed", "")

\* the names of the calls of the device flow, in the order of the code
DeviceFlow == <<"device_auth_request", "device_auth_confirm", "device_access_token">>

\* the names of the calls task t has sent
CallNames(t) == [k \in 1..Len(OxideCalls(t)) |-> OxideCalls(t)[k].a]

\* C15: a successful mint has sent exactly the three calls device-auth request,
\* confirm and access-token fetch, in this order; the confirm carries the
\* user code and the fetch the device code of the parsed response; no call is
\* ever sent out of this order or beyond the third.
C15_ThreeCallsInOrder ==
    \A t \in Tasks :
        req[t].service = "oxide" =>
            /\ CallNames(t) = SubSeq(DeviceFlow, 1, Len(CallNames(t)))
            /\ (mres[t] # None /\ mres[t][1].ok) => CallNames(t) = DeviceFlow
            /\ Len(OxideCalls(t)) >= 2 =>
                  OxideCalls(t)[2].b.user_code = DeviceResponse(req[t].silo, t).user_code
            /\ Len(OxideCalls(t)) >= 3 =>
                  OxideCalls(t)[3].b.device_code = DeviceResponse(req[t].silo, t).device_code
            /\ pc[t] = "ox_confirm" => mint[t][1].device_response # None
            /\ pc[t] = "ox_token" => Len(OxideCalls(t)) = 2

\* a token was minted
C15_Witness ==
    \E t \in Tasks :
        /\ OxideReturned(t)
        /\ mres[t][1].ok
        /\ Len(OxideCalls(t)) = 3

\* the calls a failed get had sent when it returned: the error tells the call
\* that failed
FailedAt(t) ==
    CASE mres[t][1].err \in {"DeviceAuthRequest"} -> {1}
      [] mres[t][1].err = "Oxide" -> {2}
      [] mres[t][1].err \in {"ByteStream", "OxideByteError"} -> {1, 3}
      [] OTHER -> {0}

\* once get has returned, the task sends nothing more
NothingAfterReturn ==
    \A t \in Tasks :
        (pc[t] = "ox_done" /\ mres[t] # None) =>
            /\ pc'[t] = pc[t]
            /\ mres'[t] = mres[t]
            /\ \A k \in 1..Len(hist') : (k > Len(hist) => hist'[k].t # t)

\* C16: no retry: each of the three calls is sent at most once; a failed call
\* ends get with an error, the calls after it are never sent.
C16_NoRetry ==
    /\ [](\A t \in Tasks :
            req[t].service = "oxide" =>
                /\ \A j \in 1..Len(OxideCalls(t)), k \in 1..Len(OxideCalls(t)) :
                      OxideCalls(t)[j].a = OxideCalls(t)[k].a => j = k
                /\ (mres[t] # None /\ ~mres[t][1].ok) =>
                      /\ pc[t] = "ox_done"
                      /\ Len(OxideCalls(t)) \in FailedAt(t))
    /\ [][NothingAfterReturn]_vars

\* the confirm failed: two calls were sent, the token was never fetched
C16_Witness ==
    \E t \in Tasks :
        /\ OxideReturned(t)
        /\ mres[t] = Some(Err("Oxide", ""))
        /\ CallNames(t) = <<"device_auth_request", "device_auth_confirm">>

(***************************************************************************)
(* SpecRespond: step 5 of an exchange, for either minter: the request is   *)
(* dispatched to OxideTokens::get or GitHubTokens::get and what get returns *)
(* is turned into the HTTP response.  The two minters and their            *)
(* safe_to_expose are those of token/oxide.rs and token/github.rs; the     *)
(* dispatch and the response are not in endpoints.rs and follow the design *)
(* document (step 5 of its section on the exchange handler).               *)
(***************************************************************************)

\* the variants of OxideError
OxideErrors ==
    {"ByteStream", "DeviceAuthRequest", "ParseToken", "ReadToken", "SiloNotConfigured",
     "AuthFailed", "Oxide", "OxideByteError", "NotConfigured", "NoExpirationDisallowed",
     "TooLongExpiration"}

\* a mutant: every error is exposed
ExposeAll(err) == TRUE

\* impl OxideError: safe_to_expose
OxideError_safe_to_expose(err) ==
    CASE err \in {"ByteStream", "DeviceAuthRequest", "AuthFailed", "Oxide",
                  "OxideByteError", "ParseToken", "ReadToken"} -> FALSE
      [] err \in {"SiloNotConfigured", "NotConfigured", "NoExpirationDisallowed",
                  "TooLongExpiration"} -> TRUE

\* #[error(..)] of OxideError: the text of an error
OxideErrorText(r) ==
    CASE r.err = "ByteStream" -> <<"Error reading response">>
      [] r.err = "DeviceAuthRequest" -> <<"Failed to issue device access token request">>
      [] r.err = "ParseToken" -> <<"Silo token located at ", r.val, " is malformed">>
      [] r.err = "ReadToken" -> <<"Failed to read the silo token located at ", r.val>>
      [] r.err = "SiloNotConfigured" ->
           <<"The silo ", r.val, " is not configured in this instance of oidcx">>
      [] r.err = "AuthFailed" -> <<"Failed to authenticate with silo ", r.val>>
      [] r.err \in {"Oxide", "OxideByteError"} -> <<"Remote service error">>
      [] r.err = "NotConfigured" -> <<"The Oxide token provider is not configured">>
      [] r.err = "NoExpirationDisallowed" -> <<"Tokens with no expiration are not allowed">>
      [] r.err = "TooLongExpiration" ->
           <<"The duration of this token is more than the maximum of ", r.val, " seconds">>

\* the body of a 500: nothing of the error
GenericError == Response(500, <<"Internal Server Error">>)

\* step 5: the request goes to the minter of its service
MintDispatch(t) ==
    /\ pc[t] = "x_mint"
    /\ pc' = [pc EXCEPT ![t] = IF req[t].service = "oxide" THEN "ox_start" ELSE "gh_start"]
    /\ UNCHANGED <<matcherVars, verifyVars, policyVars, envVars, req, ri, pi, vis, result,
                   minterVars, ctxVars, hist>>

\* step 5 has ended for an Oxide request: the token is answered 200, an error
\* that is safe to expose 400 with its text, another error 500
OxideRespond(t) ==
    /\ pc[t] = "ox_done"
    /\ LET r == mres[t][1] IN
       resp' = [resp EXCEPT ![t] =
                  Some(IF r.ok THEN Response(200, <<"access_token", r.val>>)
                       ELSE IF OxideError_safe_to_expose(r.err)
                       THEN Response(400, <<"Failed to generate token: ">> \o OxideErrorText(r))
                       ELSE GenericError)]
    /\ pc' = [pc EXCEPT ![t] = "x_done"]
    /\ UNCHANGED <<matcherVars, verifyVars, policyVars, envVars, req, ri, pi, vis, result,
                   ghcfg, oxstate, ctx, mint, mres, hist>>

RespondRequests(t) ==
    OxideRequests(t)
    \cup [service : {"github"}, repositories : {<<>>, <<RepoAX>>, <<RepoAX, RepoBY>>},
          permissions : {<<PermCR>>, <<PermJunk>>}]

InitRespond ==
    /\ IdleMatcher
    /\ IdleVerify
    /\ InitTasks({}, RespondRequests, {1}, "x_mint")
    /\ ghcfg \in {"unconfigured", "unsignable", "configured"}
    /\ oxstate \in OxideStates
    /\ ctx = NoContext

NextRespond ==
    \/ \E t \in Tasks : MintDispatch(t)
    \/ \E t \in Tasks : OxValidate(t)
    \/ \E t \in Tasks : OxDeviceAuthRequest(t)
    \/ \E t \in Tasks : OxDeviceAuthConfirm(t)
    \/ \E t \in Tasks : OxDeviceAccessToken(t)
    \/ \E t \in Tasks : OxideRespond(t)
    \/ \E t \in Tasks : GetValidate(t)
    \/ \E t \in Tasks : GetInstallation(t)
    \/ \E t \in Tasks : GetPost(t)
    \/ \E t \in Tasks : PipelineRespond(t)

SpecRespond == InitRespond /\ [][NextRespond]_vars

\* the minter of task t returned an error
MintFailed(t) == mres[t] # None /\ ~mres[t][1].ok

\* the exchange of task t was answered
Responded(t) == pc[t] = "x_done" /\ resp[t] # None

\* the text of the error the minter of task t returned
MintErrorText(t) ==
    IF req[t].service = "oxide" THEN OxideErrorText(mres[t][1])
    ELSE GitHubTokenErrorText(mres[t][1])

\* the body of the response of task t carries the text of the minter's error
TextInBody(t) ==
    LET b == resp[t][1].body
        x == MintErrorText(t)
    IN  \E i \in 1..Len(b) : i + Len(x) - 1 <= Len(b) /\ SubSeq(b, i, i + Len(x) - 1) = x

\* C17: OxideError::safe_to_expose is true for exactly SiloNotConfigured,
\* NotConfigured, NoExpirationDisallowed and TooLongExpiration, and the
\* response to an Oxide exchange carries the text of the minter's error only
\* when safe_to_expose is true for it; else it is the generic 500.
C17_OxideSafeToExpose ==
    /\ \A e \in OxideErrors :
          OxideError_safe_to_expose(e) <=>
             e \in {"SiloNotConfigured", "NotConfigured", "NoExpirationDisallowed",
                    "TooLongExpiration"}
    /\ \A t \in Tasks :
          (req[t].service = "oxide" /\ MintFailed(t) /\ Responded(t)) =>
              /\ mres[t][1].err \in OxideErrors
              /\ TextInBody(t) => OxideError_safe_to_expose(mres[t][1].err)
              /\ ~OxideError_safe_to_expose(mres[t][1].err) => resp[t][1] = GenericError

\* a call to the silo failed and the exchange was answered with the generic
\* 500
C17_Witness ==
    \E t \in Tasks :
        /\ req[t].service = "oxide"
        /\ MintFailed(t)
        /\ Responded(t)
        /\ mres[t][1].err = "OxideByteError"
        /\ resp[t][1] = GenericError
        /\ ~TextInBody(t)

\* the minter of task t failed on what upstream answered: a status that is no
\* success, or a body that could not be read or parsed
UpstreamProtocolError(t) ==
    /\ MintFailed(t)
    /\ mres[t][1].err \in
          (IF req[t].service = "oxide"
           THEN {"DeviceAuthRequest", "Oxide", "OxideByteError", "ByteStream"}
           ELSE {"GitHubError", "Http"})

\* the minter's safe_to_expose for the error of task t
SafeToExpose(t) ==
    IF req[t].service = "oxide" THEN OxideError_safe_to_expose(mres[t][1].err)
    ELSE safe_to_expose(mres[t][1].err)

\* C18: an upstream protocol error while minting, from GitHub or from Oxide,
\* is not safe_to_expose and is answered with the generic 500: nothing of the
\* upstream status, URL and message is in the response body.
C18_UpstreamErrorsGeneric ==
    \A t \in Tasks :
        (req[t].service \in {"oxide", "github"} /\ UpstreamProtocolError(t)) =>
            /\ ~SafeToExpose(t)
            /\ Responded(t) => (resp[t][1] = GenericError /\ ~TextInBody(t))

(***************************************************************************)
(* SpecAnyExchange: one exchange request, served either by the handler of  *)
(* endpoints.rs or by the dispatch to one of the two minters.              *)
(***************************************************************************)

InitAnyExchange == InitExchange \/ InitRespond

NextAnyExchange == NextExchange \/ NextRespond

SpecAnyExchange == InitAnyExchange /\ [][NextAnyExchange]_vars

\* where task t sent a call that mints an access token: the access-token fetch
\* of the device flow, or the installation-token POST
TokenCalls(t) ==
    {k \in 1..Len(hist) :
        /\ hist[k].e = "http"
        /\ hist[k].t = t
        /\ hist[k].a \in {"device_access_token", "access_tokens"}}

\* C22: a request sends, and so completes, at most one minting call: one
\* Oxide access-token fetch or one GitHub installation-token POST, never both
\* and never twice.
C22_AtMostOneMint ==
    \A t \in Tasks : Cardinality(TokenCalls(t)) <= 1

\* a request was answered 200 after its one minting call
C22_Witness ==
    \E t \in Tasks :
        /\ pc[t] = "x_done"
        /\ resp[t] # None
        /\ resp[t][1].status = 200
        /\ Cardinality(TokenCalls(t)) = 1

\* an upstream call of the mint of task t failed: an answer that is neither a
\* success nor the 404 of an installation lookup
StepFailed(t) ==
    \E k \in 1..Len(hist) :
        /\ hist[k].e = "http_ret"
        /\ hist[k].t = t
        /\ hist[k].b \notin {"ok", "not_found"}

\* the response of task t carries an access token: its body is the object
\* with the field access_token
HasAccessToken(t) ==
    /\ resp[t] # None
    /\ resp[t][1].body # <<>>
    /\ resp[t][1].body[1] = "access_token"

\* the minting call of task t was answered with a token
TokenGranted(t) ==
    \E k \in TokenCalls(t) :
        /\ k < Len(hist)
        /\ hist[k + 1] = Event("http_ret", t, hist[k].a, "ok")

\* C23: handler atomicity: when a step of the mint fails (a check of the
\* settings, an upstream call, the parsing of an answer) the response
\* carries no access_token; an access_token is returned only with status 200,
\* after every step of the mint succeeded.
C23_HandlerAtomicity ==
    \A t \in Tasks :
        /\ (StepFailed(t) \/ MintFailed(t)) =>
              /\ ~HasAccessToken(t)
              /\ ~TokenGranted(t)
              /\ resp[t] # None => resp[t][1].status \in {400, 500}
        /\ HasAccessToken(t) =>
              /\ resp[t][1].status = 200
              /\ TokenGranted(t)
              /\ ~StepFailed(t)
              /\ mres[t] # None => mres[t][1].ok
        /\ (resp[t] # None /\ resp[t][1].status = 200) => HasAccessToken(t)

\* the confirm succeeded, the fetch of the token failed, and the response is
\* an error without a token
C23_Witness ==
    \E t \in Tasks :
        /\ pc[t] = "x_done"
        /\ \E k \in 1..Len(hist) : hist[k] = Event("http_ret", t, "device_auth_confirm", "ok")
        /\ \E k \in 1..Len(hist) :
              /\ hist[k].e = "http_ret"
              /\ hist[k].a = "device_access_token"
              /\ hist[k].b # "ok"
        /\ resp[t] # None
        /\ resp[t][1].status = 500
        /\ ~HasAccessToken(t)

(***************************************************************************)
(* SpecRepeat: the authorization of exchanges that repeat one another: the *)
(* tasks run ensure_allowed for requests that may be identical, one after  *)
(* the other or interleaved, while time passes, the cache expires and is   *)
(* refilled and GitHub reports whatever visibility a repository has by     *)
(* then.                                                                   *)
(***************************************************************************)

RepeatRepos == {RepoAX}

RepeatRequests(t) ==
    { GitHubRequest(<<RepoAX>>, <<PermCR>>), OxideRequest("s1", 1) }

InitRepeat ==
    /\ IdleMatcher
    /\ IdleVerify
    /\ InitTasks(RepeatRepos, RepeatRequests, Tasks, "idle")
    /\ ghcfg = "configured"
    /\ oxstate = <<>>
    /\ ctx = NoContext

NextRepeat ==
    \/ \E t \in Tasks : EnsureAllowedOxide(t)
    \/ \E t \in Tasks : EnsureAllowedGitHub(t)
    \/ \E t \in Tasks : GvLock(t)
    \/ \E t \in Tasks : GvCheck(t)
    \/ \E t \in Tasks : GvRespond(t)
    \/ \E t \in Tasks : GvInsert(t)
    \/ \E t \in Tasks : EvalFact(t)
    \/ Tick

SpecRepeat == InitRepeat /\ [][NextRepeat]_vars

\* ensure_allowed of task t has returned
Decided(t) == pc[t] = "ea_done" /\ result[t] # None

\* what the visibility lookups of task t returned, in order: a visibility, or
\* "error"
SeenVisibilities(t) ==
    LET evs == EventsOf(t, "vis_ret") IN [k \in 1..Len(evs) |-> evs[k].b]

\* C25 as claimed: identical requests always receive the same authorization
\* decision, whatever happens in between.
C25_Claimed ==
    \A t \in Tasks, u \in Tasks :
        (req[t] = req[u] /\ Decided(t) /\ Decided(u)) => result[t] = result[u]

\* C25 amended: identical requests receive the same decision whenever their
\* visibility lookups returned the same (a repository's visibility is part of
\* the fact the rules decide); identical Oxide requests always do.
C25_SameDecision ==
    \A t \in Tasks, u \in Tasks :
        (req[t] = req[u] /\ Decided(t) /\ Decided(u)
           /\ SeenVisibilities(t) = SeenVisibilities(u)) => result[t] = result[u]

\* two identical GitHub requests, the second after the cache entry of the
\* first expired: both fetched the visibility, got the same, and were decided
\* alike
C25_Witness ==
    \E t \in Tasks, u \in Tasks :
        /\ t # u
        /\ req[t] = req[u]
        /\ req[t].service = "github"
        /\ Decided(t)
        /\ Decided(u)
        /\ SeenVisibilities(t) = SeenVisibilities(u)
        /\ SeenVisibilities(t) # <<"error">>
        /\ Cardinality({k \in 1..Len(hist) : hist[k].e = "http"}) = 2
        /\ \E k \in 1..Len(hist) : hist[k].e = "http" /\ hist[k].at > TTL
        /\ result[t] = result[u]

(***************************************************************************)
(* context.rs: Context::new.  For each configured provider the discovery   *)
(* document is fetched from the provider's url (fetch_config), its JWKS is *)
(* fetched from the document's jwks_uri (resolve), and the resolved record *)
(* is inserted into the providers map.  Then the authorizations and the    *)
(* token clients are set up.  The first error ends the construction.       *)
(***************************************************************************)

MaxProviders == 2

MaxReads == 2

UrlA == "https://a.test/oidc/.well-known/openid-configuration"

UrlB == "https://b.test/oidc/.well-known/openid-configuration"

DiscoveryUrls == {UrlA, UrlB}

\* settings.providers: the configured discovery urls, in order
ProviderSettings == UNION {[1..n -> DiscoveryUrls] : n \in 0..MaxProviders}

\* the discovery documents a url may answer with (None: the request fails or
\* the body is no document): the issuer is whatever the
\* document says; the listed algorithms parse or one of them does not
DiscoveryDocuments ==
    [issuer : {IssuerA, IssuerB}, jwks_uri : {"jwks-1", "jwks-2"},
     algs_parse : BOOLEAN]

\* the key sets a jwks_uri may answer with
JwkSets == {Providers[p].jwks : p \in ProviderIds}

\* OidcConfig::resolve: the record built of a document and the fetched key set
Resolved(config, jwks) == [issuer |-> config.issuer, jwks |-> jwks]

\* a mutant: the record is stored under the configured discovery url
KeyIsUrl(url, resolved) == url

\* let issuer = resolved.config.issuer.clone(): the key of providers.insert
ProviderKey(url, resolved) == resolved.issuer

\* HashMap::insert: an entry under the same key is replaced
Insert(map, key, value) == (key :> value) @@ map

ContextFails(error) ==
    ctx' = [ctx EXCEPT !.state = "failed", !.error = error, !.config = None]

\* provider.fetch_config(&client).await?
FetchConfig ==
    /\ ctx.state = "building"
    /\ ctx.next <= Len(ctx.settings)
    /\ ctx.config = None
    /\ LET url == ctx.settings[ctx.next] IN
       \E answer \in {None} \cup {Some(d) : d \in DiscoveryDocuments} :
          /\ hist' = Append(Append(hist, Event("http", 0, "discovery", url)),
                            Event("http_ret", 0, url, answer))
          /\ IF answer = None
             THEN ContextFails("Oidc")
             ELSE ctx' = [ctx EXCEPT !.config = answer]
    /\ UNCHANGED <<matcherVars, verifyVars, policyVars, envVars, taskVars, minterVars>>

\* .resolve(&client).await?, then providers.insert(issuer, ..)
ResolveInsert ==
    /\ ctx.state = "building"
    /\ ctx.config # None
    /\ LET url == ctx.settings[ctx.next]
           config == ctx.config[1]
       IN  \E answer \in {None} \cup {Some(j) : j \in JwkSets} :
              /\ hist' = Append(Append(hist, Event("http", 0, "jwks", config.jwks_uri)),
                                Event("http_ret", 0, config.jwks_uri, answer))
              /\ IF answer = None \/ ~config.algs_parse
                 THEN ContextFails("Oidc")
                 ELSE LET resolved == Resolved(config, answer[1]) IN
                      ctx' = [ctx EXCEPT
                                !.providers = Insert(ctx.providers,
                                                     ProviderKey(url, resolved), resolved),
                                !.config = None,
                                !.next = ctx.next + 1]
    /\ UNCHANGED <<matcherVars, verifyVars, policyVars, envVars, taskVars, minterVars>>

\* the authorizations are grouped and the token clients added to the store:
\* Ok(Context {..}), or ClientConstruction when a client cannot be built
ContextFinish ==
    /\ ctx.state = "building"
    /\ ctx.next > Len(ctx.settings)
    /\ \/ ctx' = [ctx EXCEPT !.state = "built"]
       \/ ContextFails("ClientConstruction")
    /\ UNCHANGED <<matcherVars, verifyVars, policyVars, envVars, taskVars, minterVars,
                   hist>>

\* a request handler goes through the map (for provider in &ctx.providers);
\* the Context is shared by reference and no handler writes to it
ContextRead ==
    /\ ctx.state = "built"
    /\ Cardinality({k \in 1..Len(hist) : hist[k].e = "providers"}) < MaxReads
    /\ hist' = Append(hist, Event("providers", 0, DOMAIN ctx.providers, ""))
    /\ UNCHANGED <<matcherVars, verifyVars, policyVars, envVars, taskVars, minterVars,
                   ctxVars>>

NoRequests(t) == {}

InitContext ==
    /\ IdleMatcher
    /\ IdleVerify
    /\ InitTasks({}, NoRequests, {}, "off")
    /\ ghcfg = ""
    /\ oxstate = <<>>
    /\ \E settings \in ProviderSettings :
          ctx = [state |-> "building", settings |-> settings, next |-> 1,
                 config |-> None, providers |-> <<>>, error |-> ""]

NextContext ==
    \/ FetchConfig
    \/ ResolveInsert
    \/ ContextFinish
    \/ ContextRead

SpecContext == InitContext /\ [][NextContext]_vars

\* the issuers the discovery documents of the configured urls reported
ReportedIssuers ==
    {hist[k].b[1].issuer : k \in {j \in 1..Len(hist) :
                                    /\ hist[j].e = "http_ret"
                                    /\ hist[j].a \in DiscoveryUrls
                                    /\ hist[j].b # None}}

\* C26: after Context construction, and in every later state (and while the map
\* is being built), each entry of the issuer-record map is stored under a key
\* equal to the issuer field of its own record, which is an issuer a discovery
\* document reported and not the configured discovery url.
C26_KeyedByIssuer ==
    ctx.state # "none" =>
        \A key \in DOMAIN ctx.providers :
            /\ ctx.providers[key].issuer = key
            /\ key \in ReportedIssuers
            /\ key \notin {ctx.settings[i] : i \in 1..Len(ctx.settings)}

\* a Context built of two providers whose documents reported different
\* issuers, read by a handler afterwards
C26_Witness ==
    /\ ctx.state = "built"
    /\ DOMAIN ctx.providers = {IssuerA, IssuerB}
    /\ \A key \in DOMAIN ctx.providers : ctx.providers[key].issuer = key
    /\ \E k \in 1..Len(hist) : hist[k].e = "providers" /\ hist[k].a = {IssuerA, IssuerB}

(***************************************************************************)
(* SpecFlows: two exchanges mint Oxide tokens at the same time, and the    *)
(* runtime may drop either task at an await of get: at the device-auth     *)
(* request, the confirm or the access-token call.  The silo may or may not *)
(* have served the call that was in flight.                                *)
(***************************************************************************)

\* the call get is awaiting at its place
OxCall(t) ==
    LET m == mint[t][1] IN
    CASE pc[t] = "ox_request" ->
            Event("http", t, "device_auth_request",
                  [host |-> m.client.host, ttl_seconds |-> TtlSeconds(req[t])])
      [] pc[t] = "ox_confirm" ->
            Event("http", t, "device_auth_confirm",
                  [host |-> m.client.host, user_code |-> DeviceResponseOf(t).user_code])
      [] pc[t] = "ox_token" ->
            Event("http", t, "device_access_token",
                  [host |-> m.client.host, device_code |-> DeviceResponseOf(t).device_code])

\* a mutant: the dropped task is handed the token all the same
DroppedReturns(t) == Some(Ok(TokenFor(DeviceResponse(req[t].silo, t).device_code)))

\* the future of get is dropped: nothing is returned
Dropped(t) == None

\* the task is aborted while get awaits a call: the silo has not seen the call,
\* has served it, or has refused it; the answer reaches nobody
OxAbort(t) ==
    /\ pc[t] \in {"ox_request", "ox_confirm", "ox_token"}
    /\ \E served \in {"unserved", "ok", "error"} :
          hist' = Append(Append(hist, OxCall(t)), Event("dropped", t, OxCall(t).a, served))
    /\ pc' = [pc EXCEPT ![t] = "aborted"]
    /\ mres' = [mres EXCEPT ![t] = Dropped(t)]
    /\ UNCHANGED <<matcherVars, verifyVars, policyVars, envVars, req, ri, pi, vis, result,
                   ghcfg, oxstate, ctx, mint, resp>>

FlowSilos == {"s1", "s2"}

FlowRequests(t) == [service : {"oxide"}, silo : FlowSilos, duration : 0..1]

InitFlows ==
    /\ IdleMatcher
    /\ IdleVerify
    /\ InitTasks({}, FlowRequests, Tasks, "ox_start")
    /\ ghcfg = "unconfigured"
    /\ oxstate = Some(OxideState(FlowSilos, TRUE, MaxDuration - 1))
    /\ ctx = NoContext

NextFlows ==
    \/ \E t \in Tasks : OxValidate(t)
    \/ \E t \in Tasks : OxDeviceAuthRequest(t)
    \/ \E t \in Tasks : OxDeviceAuthConfirm(t)
    \/ \E t \in Tasks : OxDeviceAccessToken(t)
    \/ \E t \in Tasks : OxAbort(t)

SpecFlows == InitFlows /\ [][NextFlows]_vars

\* the places of the history where the silo served a call named call
ServedOk(call) ==
    {k \in 2..Len(hist) :
        /\ hist[k].e \in {"http_ret", "dropped"}
        /\ hist[k].a = call
        /\ hist[k].b \in {"ok", "ok_unparseable"}}

\* the grant the silo holds for the device-auth request of task t: none, or the
\* codes it answered with and the ttl_seconds the broker sent
GrantOf(t) ==
    LET made == {k \in ServedOk("device_auth_request") : hist[k].t = t} IN
    IF made = {} THEN None
    ELSE LET k == CHOOSE j \in made : TRUE IN
         Some([codes |-> DeviceResponse(hist[k - 1].b.host, t),
               ttl_seconds |-> hist[k - 1].b.ttl_seconds])

\* what has become of the grant of task t on the silo
GrantState(t) ==
    IF GrantOf(t) = None THEN "none"
    ELSE LET g == GrantOf(t)[1] IN
         IF \E k \in ServedOk("device_access_token") :
               hist[k - 1].b.device_code = g.codes.device_code
         THEN "exchanged"
         ELSE IF \E k \in ServedOk("device_auth_confirm") :
                    hist[k - 1].b.user_code = g.codes.user_code
         THEN "approved"
         ELSE "pending"

Aborted(t) == pc[t] = "aborted"

\* the tokens get has returned to the callers
ReturnedTokens == {mres[u][1].val : u \in {v \in Tasks : mres[v] # None /\ mres[v][1].ok}}

\* nothing is returned to the caller of an aborted task, and the token of its
\* grant is returned to nobody
NoTokenOfAborted(t) ==
    /\ mres[t] = None
    /\ resp[t] = None
    /\ TokenFor(DeviceResponse(req[t].silo, t).device_code) \notin ReturnedTokens

\* C28 as claimed: when a task is aborted at a suspension point of the Oxide
\* sequence, no access token is returned to any caller and the only residue is
\* a pending or approved grant, which carries a ttl_seconds to expire through,
\* for requests with duration 0 as well.
C28_Claimed ==
    \A t \in Tasks :
        Aborted(t) =>
            /\ NoTokenOfAborted(t)
            /\ GrantState(t) \in {"none", "pending", "approved"}
            /\ GrantOf(t) # None => GrantOf(t)[1].ttl_seconds # None

\* C28 amended: when a task is aborted at a suspension point of the Oxide
\* sequence, no access token is returned to any caller; the residue on the silo
\* is at most the grant of the task's own device-auth request: pending,
\* approved, or, when the abort came while the access-token call was in flight,
\* already exchanged for a token nobody received; the grant carries
\* ttl_seconds = duration for a duration above 0 and no ttl_seconds for an
\* accepted request with duration 0.
C28_AbortResidue ==
    \A t \in Tasks :
        Aborted(t) =>
            /\ NoTokenOfAborted(t)
            /\ GrantState(t) \in {"none", "pending", "approved", "exchanged"}
            /\ GrantState(t) = "exchanged" =>
                  hist[CHOOSE k \in 1..Len(hist) :
                          hist[k].t = t /\ hist[k].e = "dropped"].a = "device_access_token"
            /\ GrantOf(t) # None =>
                  /\ GrantOf(t)[1].ttl_seconds = TtlSeconds(req[t])
                  /\ (GrantOf(t)[1].ttl_seconds = None) <=> (req[t].duration = 0)
            /\ \A k \in 1..Len(hist) :
                  (hist[k].e = "http" /\ hist[k].a # "device_auth_request"
                     /\ hist[k].b.host = req[t].silo
                     /\ (\/ /\ hist[k].a = "device_auth_confirm"
                            /\ hist[k].b.user_code = DeviceResponse(req[t].silo, t).user_code
                         \/ /\ hist[k].a = "device_access_token"
                            /\ hist[k].b.device_code = DeviceResponse(req[t].silo, t).device_code))
                    => hist[k].t = t

\* a task was aborted after its grant was approved, while the other task
\* minted a token on the same silo
C28_Witness ==
    \E t \in Tasks, u \in Tasks :
        /\ t # u
        /\ Aborted(t)
        /\ GrantState(t) = "approved"
        /\ req[u].silo = req[t].silo
        /\ mres[u] # None
        /\ mres[u][1].ok

\* the confirm and the access-token call of task t, as sent
CallsNamed(t, call) ==
    {k \in 1..Len(hist) : hist[k].e = "http" /\ hist[k].t = t /\ hist[k].a = call}

\* the device-auth response the silo gave task t
OwnResponse(t) == DeviceResponse(req[t].silo, t)

\* C29: under any interleaving of in-flight Oxide mints, each request confirms
\* with the user_code and fetches with the device_code of its own device-auth
\* response, and the access token it returns is the one granted to it, never
\* the one of another in-flight request.
C29_OwnCodesOnly ==
    \A t \in Tasks :
        /\ \A k \in CallsNamed(t, "device_auth_confirm") :
              /\ hist[k].b.user_code = OwnResponse(t).user_code
              /\ hist[k].b.host = req[t].silo
        /\ \A k \in CallsNamed(t, "device_access_token") :
              /\ hist[k].b.device_code = OwnResponse(t).device_code
              /\ hist[k].b.host = req[t].silo
        /\ (mres[t] # None /\ mres[t][1].ok) =>
              /\ mres[t][1].val = TokenFor(OwnResponse(t).device_code)
              /\ \A u \in Tasks \ {t} :
                    mres[t][1].val # TokenFor(OwnResponse(u).device_code)

\* two mints on the same silo ran interleaved: the second request was sent
\* before the first was confirmed, and both returned a token
C29_Witness ==
    \E t \in Tasks, u \in Tasks :
        /\ t # u
        /\ req[t].silo = req[u].silo
        /\ mres[t] # None /\ mres[t][1].ok
        /\ mres[u] # None /\ mres[u][1].ok
        /\ \E i \in CallsNamed(t, "device_auth_request"),
              j \in CallsNamed(u, "device_auth_request"),
              k \in CallsNamed(t, "device_auth_confirm"),
              l \in CallsNamed(u, "device_access_token"),
              m \in CallsNamed(t, "device_access_token") :
                 i < j /\ j < k /\ l < m

(***************************************************************************)
(* The key errors of validate, under SpecVerify.                           *)
(***************************************************************************)

\* validate returned the error err before it built a Validation, that is
\* before jsonwebtoken::decode and its signature check
KeyError(err) ==
    /\ ~vres[1].ok
    /\ vres[1].err = err
    /\ vres[1].validation = None

\* the JWK validate found for the kid of the token, None when there is none
FoundJwk ==
    IF jwt[1].kid = None THEN None ELSE JwksFind(Providers[vprov[1]].jwks, jwt[1].kid[1])

\* C30 as claimed: validate decides its key errors in this order before any
\* signature check: MissingKid, else UnknownKid, else MissingKeyAlgorithm,
\* else UnsupportedAlgorithm; a JWK without a declared algorithm always yields
\* MissingKeyAlgorithm.
C30_Claimed ==
    (Ran(vres) /\ jwt[1].wellformed) =>
        IF jwt[1].kid = None THEN KeyError("MissingKid")
        ELSE IF FoundJwk = None THEN KeyError("UnknownKid")
        ELSE IF FoundJwk[1].alg = None THEN KeyError("MissingKeyAlgorithm")
        ELSE IF ~key_algo_to_algo(FoundJwk[1].alg[1]).ok
        THEN KeyError("UnsupportedAlgorithm")
        ELSE vres[1].err \notin {"MissingKid", "UnknownKid", "MissingKeyAlgorithm",
                                 "UnsupportedAlgorithm"}

\* C30 amended: for a token whose header parses, validate decides its key errors
\* in this order before any signature check: MissingKid, else UnknownKid, else
\* InvalidKey when no decoding key can be made of the JWK, else
\* MissingKeyAlgorithm, else UnsupportedAlgorithm; a JWK without a declared
\* algorithm yields MissingKeyAlgorithm when its key loads and InvalidKey when
\* it does not.
C30_KeyErrorOrder ==
    (Ran(vres) /\ jwt[1].wellformed) =>
        IF jwt[1].kid = None THEN KeyError("MissingKid")
        ELSE IF FoundJwk = None THEN KeyError("UnknownKid")
        ELSE IF ~FoundJwk[1].loads THEN KeyError("InvalidKey")
        ELSE IF FoundJwk[1].alg = None THEN KeyError("MissingKeyAlgorithm")
        ELSE IF ~key_algo_to_algo(FoundJwk[1].alg[1]).ok
        THEN KeyError("UnsupportedAlgorithm")
        ELSE vres[1].err \notin {"MissingKid", "UnknownKid", "InvalidKey",
                                 "MissingKeyAlgorithm", "UnsupportedAlgorithm"}

\* a token whose kid selects a JWK that declares no algorithm and whose key
\* does not load was refused with InvalidKey
C30_Witness ==
    /\ Ran(vres)
    /\ jwt[1].wellformed
    /\ FoundJwk # None
    /\ FoundJwk[1].alg = None
    /\ ~FoundJwk[1].loads
    /\ KeyError("InvalidKey")

\* a token whose kid selects a sound JWK that declares no algorithm was
\* refused with MissingKeyAlgorithm
C30_WitnessMissing ==
    /\ Ran(vres)
    /\ FoundJwk # None
    /\ FoundJwk[1].alg = None
    /\ FoundJwk[1].loads
    /\ KeyError("MissingKeyAlgorithm")

(***************************************************************************)
(* SpecLive: exchanges run from the policy step to the response, one step  *)
(* of a task at a time.  Either two GitHub exchanges run at the same time  *)
(* and meet at the visibility cache and its mutex, on a minter without     *)
(* credentials, or one exchange runs through either minter: the minters    *)
(* share nothing between requests.  The runtime keeps polling every task   *)
(* that can take a step, and every upstream call is answered, which is the *)
(* weak fairness of the steps of each task.                                *)
(***************************************************************************)

\* two requests that contend for the cache entry of one repository: the second
\* task looks the repository up twice, the first once
ContendedRequests(t) ==
    IF t = 2
    THEN { GitHubRequest(<<RepoAX, RepoAX>>, <<>>) }
    ELSE { GitHubRequest(<<RepoAX>>, <<>>) }

LiveRequests(t) ==
    { GitHubRequest(<<RepoAX>>, <<PermCR>>), GitHubRequest(<<RepoAX, RepoAX>>, <<PermCR>>),
      OxideRequest("s1", 1) }

InitLive ==
    /\ IdleMatcher
    /\ IdleVerify
    /\ \/ /\ InitTasks({RepoAX}, ContendedRequests, Tasks, "idle")
          /\ ghcfg = "unconfigured"
       \/ /\ InitTasks({RepoAX}, LiveRequests, {1}, "idle")
          /\ ghcfg = "configured"
    /\ oxstate = Some(OxideState({"s1"}, TRUE, MaxDuration - 1))
    /\ ctx = NoContext

\* the steps of task t
StepOf(t) ==
    \/ EnsureAllowedOxide(t)
    \/ EnsureAllowedGitHub(t)
    \/ GvLock(t)
    \/ GvCheck(t)
    \/ GvRespond(t)
    \/ GvInsert(t)
    \/ EvalFact(t)
    \/ PipelinePolicy(t)
    \/ OxValidate(t)
    \/ OxDeviceAuthRequest(t)
    \/ OxDeviceAuthConfirm(t)
    \/ OxDeviceAccessToken(t)
    \/ OxideRespond(t)
    \/ GetValidate(t)
    \/ GetInstallation(t)
    \/ GetPost(t)
    \/ PipelineRespond(t)

\* the clock plays no part in whether a task moves on: it stands still here
NextLive == \E t \in Tasks : StepOf(t)

\* where a task can be
Places ==
    {"idle", "off", "gv_lock", "gv_check", "gv_await", "gv_insert", "ea_perm", "ea_done",
     "gh_start", "gh_orgs", "gh_users", "gh_post", "gh_done", "ox_start", "ox_request",
     "ox_confirm", "ox_token", "ox_done", "x_done"}

\* a step of task t as the scheduler sees it: the task, and no other, moves on
Scheduled(t) ==
    /\ \E place \in Places \ {pc[t]} : pc' = [pc EXCEPT ![t] = place]
    /\ StepOf(t)

SpecLive ==
    /\ InitLive
    /\ [][NextLive]_vars
    /\ \A t \in Tasks : WF_vars(Scheduled(t))

\* the exchange of task t has been answered
Completed(t) == pc[t] = "x_done" /\ resp[t] # None

\* a completed exchange takes no further step
StaysCompleted ==
    \A t \in Tasks :
        Completed(t) =>
            /\ pc'[t] = pc[t]
            /\ resp'[t] = resp[t]
            /\ \A k \in (Len(hist) + 1)..Len(hist') : hist'[k].t # t

\* an error of a step is the error of the exchange: nothing is sent after it
StopsAtFirstError ==
    \A t \in Tasks :
        /\ (result[t] # None /\ ~result[t][1].ok) => (mint[t] = None /\ mres[t] = None)
        /\ (mres[t] # None /\ ~mres[t][1].ok /\ resp[t] # None) => resp[t][1].status # 200

\* C33: every exchange request eventually completes with a success or an
\* error, provided each upstream call it makes eventually returns: the steps of
\* one request run sequentially and stop at the first error, and no request
\* waits forever for the visibility-cache mutex.
C33_EventuallyCompletes ==
    /\ \A t \in Tasks : (pc[t] # "off") ~> Completed(t)
    /\ [][StaysCompleted]_vars
    /\ []StopsAtFirstError

\* two GitHub exchanges both went upstream for the visibility of the same
\* repository, took the mutex in turn for their inserts, and both completed
C33_Witness ==
    \E t \in Tasks, u \in Tasks :
        /\ t # u
        /\ Completed(t)
        /\ Completed(u)
        /\ Len(SelectSeq(hist, LAMBDA ev : ev.e = "http" /\ ev.t = t)) = 1
        /\ Len(SelectSeq(hist, LAMBDA ev : ev.e = "http" /\ ev.t = u)) = 1
        /\ Len(SelectSeq(hist, LAMBDA ev : ev.e = "vis_ret" /\ ev.b # "error")) = 2

\* one exchange ran through the Oxide minter and was answered with a token
C33_WitnessMint ==
    /\ req[1].service = "oxide"
    /\ Completed(1)
    /\ resp[1][1].status = 200
====
